---- MODULE Spec2Model ----
(***************************************************************************)
(* A state-machine model of UserDataSyncWorkbenchContribution              *)
(* (src/vs/workbench/contrib/userDataSync/browser/userDataSync.ts): the    *)
(* workbench contribution that mirrors the preferences-sync service into   *)
(* context keys, the global-activity badge, notifications and dialogs.     *)
(*                                                                         *)
(* JavaScript runs a handler to its first await without interruption, so   *)
(* every action below is one such run: a synchronous handler as a whole,   *)
(* an asynchronous one from one await to the next.  The handlers are       *)
(* written as operators from a state record to a state record, so that a   *)
(* handler that calls another is the composition the source writes.        *)
(***************************************************************************)
EXTENDS Integers, Sequences, FiniteSets, TLC

\* ---------------------------------------------------------------- bounds
\* Conflicts reported for the snippets (one per snippets file; settings and
\* keybindings are one file each, so one conflict each: the titles of lines
\* 953 and 980 say "(1)", that of line 1010 counts).
MaxConflicts == 2
\* Calls of setActiveAccount that nobody awaits, waiting for their token.
MaxPending == 1
\* The 500 ms debounce delay, counted in clock ticks of the model.
DebounceTicks == 2
\* Resources in error in one onSyncErrors event.
MaxErrors == 2
\* Lines of the toc file the notebook rewrites.
MaxTocLines == 3

\* ----------------------------------------------------------------- enums
\* enum SyncStatus (vs/platform/userDataSync/common/userDataSync)
Uninitialized == "uninitialized"
Idle == "idle"
Syncing == "syncing"
HasConflicts == "hasConflicts"
SyncStatus == {Uninitialized, Idle, Syncing, HasConflicts}

\* enum SyncResource
Settings == "settings"
Keybindings == "keybindings"
Snippets == "snippets"
Extensions == "extensions"
GlobalState == "globalState"
SyncResource == {Settings, Keybindings, Snippets, Extensions, GlobalState}
\* The resources whose synchronisers report conflicts with a preview.
ConflictResource == {Settings, Keybindings, Snippets}

\* const enum AuthStatus
Initializing == "Initializing"
SignedIn == "SignedIn"
SignedOut == "SignedOut"
Unavailable == "Unavailable"
AuthStatus == {Initializing, SignedIn, SignedOut, Unavailable}

\* enum UserDataSyncErrorCode: the codes onAutoSyncError and onSyncErrors
\* name, and two of the others.
TurnedOff == "TurnedOff"
SessionExpired == "SessionExpired"
TooLarge == "TooLarge"
Incompatible == "Incompatible"
LocalInvalidContent == "LocalInvalidContent"
Unauthorized == "Unauthorized"
UnknownError == "Unknown"
UserDataSyncErrorCode ==
    {TurnedOff, SessionExpired, TooLarge, Incompatible, LocalInvalidContent,
     Unauthorized, UnknownError}

\* The default of CONTEXT_CONFLICTS_SOURCES.
ConflictsSourcesDefault == ""

\* The authentication sessions the provider may hold, by id; NoAccount is
\* the undefined account, NoToken the undefined token.
SessionIds == {"p/s1", "p/s2"}
NoAccount == ""
NoToken == ""
\* The access token session.getAccessToken() resolves with.
AccessToken(id) == "token:" \o id

\* ----------------------------------------------------------------- state
VARIABLES
    svcStatus,              \* userDataSyncService.status
    svcConflicts,           \* userDataSyncService.conflicts: SyncResourceConflicts[]
    enabled,                \* userDataSyncEnablementService.isEnabled()
    resourceEnabled,        \* userDataSyncEnablementService.isResourceEnabled(r)
    syncStatusContext,      \* context key CONTEXT_SYNC_STATE
    syncEnablementContext,  \* context key CONTEXT_SYNC_ENABLEMENT
    authenticationState,    \* context key CONTEXT_AUTH_TOKEN_STATE
    conflictsSources,       \* context key CONTEXT_CONFLICTS_SOURCES
    activity,               \* badges shown on GLOBAL_ACTIVITY_ID, oldest first
    badgeDisposable,        \* badgeDisposable holds the last badge of activity
    debounceTimer,          \* ticks left of the status debounce; -1: no timer
    conflictsDisposables,   \* Map<SyncResource, IDisposable>: resource -> the
                            \* conflicts its notification's actions captured
    conflictNotifications,  \* open conflicts notifications per resource
    signInNotification,     \* signInNotificationDisposable holds an open prompt
    editors,                \* open conflicts preview editors, by master resource
    activeAccount,          \* _activeAccount: a session id, or NoAccount
    token,                  \* the token authTokenService holds, or NoToken
    providerRegistered,     \* the sync store's authentication provider is registered
    sessions,               \* the sessions of that provider
    tokenFailedFlow,        \* an onTokenFailed() waits for getSessions
    pendingTokens,          \* getAccessToken() calls of unawaited setActiveAccount
                            \* calls, by session id
    donotAskPreviewConfirmation, \* storage: 'sync.donotAskPreviewConfirmation'
    accountPreference,      \* storage: USER_DATA_SYNC_ACCOUNT_PREFERENCE_KEY
    turnOnFlow,             \* a running turnOn()/doTurnOn(): where it waits
    turnOffFlow,            \* a running turnOff(): where it waits
    accountFlow,            \* a running initializeActiveAccount() or
                            \* onDidChangeSessions(): where it waits
    conflictsFlow,          \* a running acceptRemote(), acceptLocal() or
                            \* handleConflicts(): where it waits
    synchronisers,          \* the sync service's resources with conflicts to
                            \* report, in the order it reports them
    invalidContentErrorDisposables, \* Map<SyncResource, IDisposable>: the
                            \* resources with an open invalid-content notification
    activeEditor,           \* editorService.activeEditor
    svcErrors,              \* the errors of the last onSyncErrors event
    calls                   \* calls made on the host's services by the last step

\* The "Create Jupyter Book" notebook (unnamed/part_000): its third code
\* cell, and the files it works on.
VARIABLES
    nbPc,                   \* where the cell is, or how it ended
    book_name,              \* book_name: the path of the book's root folder
    tocFile,                \* <book_name>/_data/toc.yml, line by line
    configFile,             \* <book_name>/_config.yml, line by line
    bookRoot,               \* the entries of the book's root folder
    fileOps                 \* the writes and removals the cell has made

\* The Timeline view's registration (unnamed/part_001).
VARIABLES
    productQuality,         \* product.quality
    showViewDefault,        \* the registered default of timeline.showView
    showViewSetting         \* the user's value of timeline.showView: <<>> when
                            \* not set, else <<value>>

notebookVars == <<nbPc, book_name, tocFile, configFile, bookRoot, fileOps>>
timelineVars == <<productQuality, showViewDefault, showViewSetting>>

syncVars == <<svcStatus, svcConflicts, enabled, resourceEnabled, syncStatusContext,
          syncEnablementContext, authenticationState, conflictsSources,
          activity, badgeDisposable, debounceTimer, conflictsDisposables,
          conflictNotifications, signInNotification, editors, activeAccount,
          token, providerRegistered, sessions, tokenFailedFlow, pendingTokens, donotAskPreviewConfirmation,
          accountPreference, turnOnFlow, turnOffFlow, accountFlow, conflictsFlow,
          synchronisers, invalidContentErrorDisposables, activeEditor, svcErrors,
          calls>>

vars == <<syncVars, notebookVars, timelineVars>>

\* The state as a record, for the handlers to transform.
Cur ==
    [svcStatus |-> svcStatus, svcConflicts |-> svcConflicts, enabled |-> enabled,
     resourceEnabled |-> resourceEnabled,
     syncStatusContext |-> syncStatusContext,
     syncEnablementContext |-> syncEnablementContext,
     authenticationState |-> authenticationState,
     conflictsSources |-> conflictsSources,
     activity |-> activity, badgeDisposable |-> badgeDisposable,
     debounceTimer |-> debounceTimer,
     conflictsDisposables |-> conflictsDisposables,
     conflictNotifications |-> conflictNotifications,
     signInNotification |-> signInNotification,
     editors |-> editors,
     activeAccount |-> activeAccount, token |-> token,
     providerRegistered |-> providerRegistered, sessions |-> sessions,
     tokenFailedFlow |-> tokenFailedFlow,
     pendingTokens |-> pendingTokens,
     donotAskPreviewConfirmation |-> donotAskPreviewConfirmation,
     accountPreference |-> accountPreference,
     turnOnFlow |-> turnOnFlow, turnOffFlow |-> turnOffFlow,
     accountFlow |-> accountFlow, conflictsFlow |-> conflictsFlow,
     synchronisers |-> synchronisers,
     invalidContentErrorDisposables |-> invalidContentErrorDisposables,
     activeEditor |-> activeEditor, svcErrors |-> svcErrors,
     calls |-> <<>>]

\* The state a step leaves.
Commit(s) ==
    /\ svcStatus' = s.svcStatus
    /\ svcConflicts' = s.svcConflicts
    /\ enabled' = s.enabled
    /\ resourceEnabled' = s.resourceEnabled
    /\ syncStatusContext' = s.syncStatusContext
    /\ syncEnablementContext' = s.syncEnablementContext
    /\ authenticationState' = s.authenticationState
    /\ conflictsSources' = s.conflictsSources
    /\ activity' = s.activity
    /\ badgeDisposable' = s.badgeDisposable
    /\ debounceTimer' = s.debounceTimer
    /\ conflictsDisposables' = s.conflictsDisposables
    /\ conflictNotifications' = s.conflictNotifications
    /\ signInNotification' = s.signInNotification
    /\ editors' = s.editors
    /\ activeAccount' = s.activeAccount
    /\ token' = s.token
    /\ providerRegistered' = s.providerRegistered
    /\ sessions' = s.sessions
    /\ tokenFailedFlow' = s.tokenFailedFlow
    /\ pendingTokens' = s.pendingTokens
    /\ donotAskPreviewConfirmation' = s.donotAskPreviewConfirmation
    /\ accountPreference' = s.accountPreference
    /\ turnOnFlow' = s.turnOnFlow
    /\ turnOffFlow' = s.turnOffFlow
    /\ accountFlow' = s.accountFlow
    /\ conflictsFlow' = s.conflictsFlow
    /\ synchronisers' = s.synchronisers
    /\ invalidContentErrorDisposables' = s.invalidContentErrorDisposables
    /\ activeEditor' = s.activeEditor
    /\ svcErrors' = s.svcErrors
    /\ calls' = s.calls
    /\ UNCHANGED <<notebookVars, timelineVars>>

\* A call on one of the host's services, as the step's output.
Call(s, service, op, arg) ==
    [s EXCEPT !.calls = Append(@, [service |-> service, op |-> op, arg |-> arg])]

\* --------------------------------------------------------------- helpers
Front(q) == SubSeq(q, 1, Len(q) - 1)

\* Array.prototype.join(',') on an array of strings.
RECURSIVE join(_)
join(a) ==
    IF Len(a) = 0 THEN ""
    ELSE IF Len(a) = 1 THEN a[1]
    ELSE a[1] \o "," \o join(Tail(a))

\* conflicts.map(conflict => conflict.syncResource)
SourcesOf(conflicts) == [i \in DOMAIN conflicts |-> conflicts[i].syncResource]

\* conflictsSources.indexOf(r) !== -1
Includes(a, x) == \E i \in DOMAIN a : a[i] = x

\* conflicts.reduce((result, c) => result + c.conflicts.length, 0)
RECURSIVE reduceConflictsCount(_, _)
reduceConflictsCount(conflicts, result) ==
    IF Len(conflicts) = 0 THEN result
    ELSE reduceConflictsCount(Tail(conflicts), result + Len(Head(conflicts).conflicts))

\* new NumberBadge(number, () => label)
NumberBadge(number, label) == [number |-> number, label |-> label]

\* --------------------------------------------------------------- handlers

\* updateBadge without the clear() of line 572: a badge is only taken down
\* by the one that replaces it.
updateBadge_withoutClear(s) ==
    LET badge ==
            IF /\ s.svcStatus # Uninitialized
               /\ s.enabled
               /\ s.authenticationState = SignedOut
            THEN <<NumberBadge(1, "Sign in to Sync")>>
            ELSE IF Len(s.svcConflicts) # 0
            THEN <<NumberBadge(reduceConflictsCount(s.svcConflicts, 0),
                               "Preferences Sync: Conflicts Detected")>>
            ELSE <<>>
    IN  IF badge # <<>>
        THEN [s EXCEPT !.activity = (IF s.badgeDisposable THEN Front(@) ELSE @) \o badge,
                       !.badgeDisposable = TRUE]
        ELSE s

\* updateBadge, lines 571-587.  badgeDisposable is a MutableDisposable:
\* clear() disposes the badge it holds, and assigning .value disposes the
\* previous one before holding the new one.
updateBadge(s) ==
    LET cleared == [s EXCEPT !.activity = IF s.badgeDisposable THEN Front(@) ELSE @,
                            !.badgeDisposable = FALSE]
        badge ==
            IF /\ s.svcStatus # Uninitialized
               /\ s.enabled
               /\ s.authenticationState = SignedOut
            THEN <<NumberBadge(1, "Sign in to Sync")>>
            ELSE IF Len(s.svcConflicts) # 0
            THEN <<NumberBadge(reduceConflictsCount(s.svcConflicts, 0),
                               "Preferences Sync: Conflicts Detected")>>
            ELSE <<>>
    IN  IF badge # <<>>
        THEN [cleared EXCEPT !.activity = @ \o badge, !.badgeDisposable = TRUE]
        ELSE cleared

\* onDidChangeSyncStatus without the syncStatusContext.set of line 352.
onDidChangeSyncStatus_withoutSet(s, status) == updateBadge(s)

\* onDidChangeSyncStatus, lines 351-354.
onDidChangeSyncStatus(s, status) ==
    updateBadge([s EXCEPT !.syncStatusContext = status])

\* getSyncAreaLabel, lines 70-78.
getSyncAreaLabel(source) ==
    CASE source = Settings -> "Settings"
      [] source = Keybindings -> "Keyboard Shortcuts"
      [] source = Snippets -> "User Snippets"
      [] source = Extensions -> "Extensions"
      [] source = GlobalState -> "UI State"

\* String.prototype.toLowerCase on the labels of getSyncAreaLabel.
toLowerCase(label) ==
    CASE label = "Settings" -> "settings"
      [] label = "Keyboard Shortcuts" -> "keyboard shortcuts"
      [] label = "User Snippets" -> "user snippets"
      [] label = "Extensions" -> "extensions"
      [] label = "UI State" -> "ui state"

\* A Conflict { local, remote } of a sync resource: the URIs of its local
\* preview and of its remote content.
LocalPreview(syncResource, k) == <<"local", syncResource, k>>
RemoteContent(syncResource, k) == <<"remote", syncResource, k>>
Conflict(syncResource, k) ==
    [local |-> LocalPreview(syncResource, k), remote |-> RemoteContent(syncResource, k)]

\* getSyncResourceFromLocalPreview(resource) === syncResource, lines 825-830.
getConflictsEditorInputs(s, syncResource) ==
    {input \in s.editors : input[1] = "local" /\ input[2] = syncResource}

\* getAllConflictsEditorInputs, lines 832-837.
getAllConflictsEditorInputs(s) ==
    {input \in s.editors : input[1] = "local" /\ input[2] \in SyncResource}

\* A function without the entry of key k: Map.prototype.delete.
MapDelete(m, k) == [x \in DOMAIN m \ {k} |-> m[x]]
\* Map.prototype.set: the entry of k is replaced, or added.
MapSet(m, k, v) == [x \in DOMAIN m \cup {k} |-> IF x = k THEN v ELSE m[x]]

\* The disposable registered at lines 417-429, disposed: the notification is
\* closed, the resource's conflicts editors are disposed, the entry deleted.
disposeConflicts(s, syncResource) ==
    [s EXCEPT !.conflictNotifications[syncResource] = IF @ > 0 THEN @ - 1 ELSE 0,
              !.editors = @ \ getConflictsEditorInputs(s, syncResource),
              !.conflictsDisposables = MapDelete(@, syncResource)]

\* this.conflictsDisposables.forEach(...), over the keys in `keys`.
RECURSIVE disposeAllConflicts(_, _)
disposeAllConflicts(s, keys) ==
    IF keys = {} THEN s
    ELSE LET k == CHOOSE x \in keys : TRUE
         IN  disposeAllConflicts(disposeConflicts(s, k), keys \ {k})

\* The sticky notification of lines 389-416 for one entry of the service's
\* conflicts is opened, and registered under its resource (lines 417-429)
\* with the conflicts its actions will use.
showConflictsNotification(s, entry) ==
    [s EXCEPT
        !.conflictNotifications[entry.syncResource] = @ + 1,
        !.conflictsDisposables = MapSet(@, entry.syncResource, entry.conflicts)]

\* One turn of the loop without the conflictsDisposables.has test of line
\* 387: a resource without open previews is notified at every event.
conflictsLoopBody_showsAgain(s, entry) ==
    LET conflictsEditorInputs == getConflictsEditorInputs(s, entry.syncResource)
    IN  IF conflictsEditorInputs # {}
        THEN [s EXCEPT !.editors =
                 @ \ {input \in conflictsEditorInputs :
                         ~ \E i \in DOMAIN entry.conflicts :
                               entry.conflicts[i].local = input}]
        ELSE showConflictsNotification(s, entry)

\* One turn of the loop of lines 374-431.
conflictsLoopBody(s, entry) ==
    LET conflictsEditorInputs == getConflictsEditorInputs(s, entry.syncResource)
    IN  IF conflictsEditorInputs # {}
        THEN \* close stale conflicts editor previews
             [s EXCEPT !.editors =
                 @ \ {input \in conflictsEditorInputs :
                         ~ \E i \in DOMAIN entry.conflicts :
                               entry.conflicts[i].local = input}]
        ELSE IF entry.syncResource \notin DOMAIN s.conflictsDisposables
        THEN showConflictsNotification(s, entry)
        ELSE s

\* for (const { syncResource, conflicts } of this.userDataSyncService.conflicts)
RECURSIVE conflictsLoop(_, _)
conflictsLoop(s, entries) ==
    IF Len(entries) = 0 THEN s
    ELSE conflictsLoop(conflictsLoopBody(s, Head(entries)), Tail(entries))

\* onDidChangeConflicts without the reset() of line 433.
onDidChangeConflicts_withoutReset(s0) ==
    LET conflicts == s0.svcConflicts
    IN  IF Len(conflicts) # 0
        THEN [s0 EXCEPT !.conflictsSources =
                  [i \in DOMAIN conflicts |-> conflicts[i].syncResource][1]]
        ELSE s0

\* onDidChangeConflicts, lines 357-438, called with the service's conflicts.
onDidChangeConflicts(s0) ==
    LET s == updateBadge(s0)
        conflicts == s.svcConflicts
        sources == SourcesOf(conflicts)
    IN  IF Len(conflicts) # 0
        THEN LET keyed == [s EXCEPT !.conflictsSources = join(sources)]
                 cleared ==
                     disposeAllConflicts(keyed,
                         {r \in DOMAIN keyed.conflictsDisposables : ~Includes(sources, r)})
             IN  conflictsLoop(cleared, cleared.svcConflicts)
        ELSE LET reset == [s EXCEPT !.conflictsSources = ConflictsSourcesDefault,
                                    !.editors = @ \ getAllConflictsEditorInputs(s)]
             IN  disposeAllConflicts(reset, DOMAIN reset.conflictsDisposables)

\* onDidChangeEnablement, lines 464-483.  signInNotificationDisposable is a
\* MutableDisposable: the prompt it held is closed when another is assigned.
onDidChangeEnablement(s0, isEnabled) ==
    LET s == updateBadge([s0 EXCEPT !.syncEnablementContext = isEnabled])
    IN  IF isEnabled
        THEN IF s.authenticationState = SignedOut
             THEN [Call(s, "notificationService", "prompt",
                        <<"Info", "sign in message", "Sign in">>)
                   EXCEPT !.signInNotification = TRUE]
             ELSE s
        ELSE [s EXCEPT !.signInNotification = FALSE]

\* IUserDataSyncEnablementService.setEnablement: a changed value is stored
\* and onDidChangeEnablement fires with it (subscribed at line 165).
enablementStored(s, isEnabled) ==
    IF s.enabled = isEnabled THEN s
    ELSE onDidChangeEnablement([s EXCEPT !.enabled = isEnabled], isEnabled)

\* this.userDataSyncEnablementService.setEnablement(isEnabled)
setEnablement(s, isEnabled) ==
    enablementStored(
        Call(s, "userDataSyncEnablementService", "setEnablement", isEnabled),
        isEnabled)

\* IUserDataSyncEnablementService.setResourceEnablement.
setResourceEnablement(s, syncResource, isEnabled) ==
    [s EXCEPT !.resourceEnabled[syncResource] = isEnabled]

\* disableSync ignoring its source: sync is disabled as a whole.
disableSync_everything(s, source) == setEnablement(s, FALSE)

\* disableSync, lines 802-814; source "" stands for undefined.
disableSync(s, source) ==
    IF source = ""
    THEN setEnablement(s, FALSE)
    ELSE CASE source = Settings -> setResourceEnablement(s, Settings, FALSE)
           [] source = Keybindings -> setResourceEnablement(s, Keybindings, FALSE)
           [] source = Snippets -> setResourceEnablement(s, Snippets, FALSE)
           [] source = Extensions -> setResourceEnablement(s, Extensions, FALSE)
           [] source = GlobalState -> setResourceEnablement(s, GlobalState, FALSE)

\* onAutoSyncError, lines 485-519; error is { code, resource }.
onAutoSyncError(s, error) ==
    CASE error.code \in {TurnedOff, SessionExpired} ->
            Call(s, "notificationService", "notify",
                 <<"Info", "turned off", "Turn on Sync">>)
      [] error.code = TooLarge ->
            IF error.resource = Keybindings \/ error.resource = Settings
            THEN Call(disableSync(s, error.resource), "notificationService", "notify",
                      <<"Error", "too large",
                        toLowerCase(getSyncAreaLabel(error.resource))>>)
            ELSE s
      [] error.code = Incompatible ->
            Call(disableSync(s, ""), "notificationService", "notify",
                 <<"Error", "error incompatible", "">>)
      [] OTHER -> s

\* ------------------------------------------------------------ menus
\* The context the `when` clauses are evaluated in: the contribution's
\* context keys, and the configuration's value of timeline.showView (the
\* user's value, or else the registered default) as the context key
\* config.timeline.showView.
ContextKeys ==
    [syncStatus |-> syncStatusContext,
     syncEnablement |-> syncEnablementContext,
     authTokenState |-> authenticationState,
     configTimelineShowView |->
         IF showViewSetting = <<>> THEN showViewDefault ELSE showViewSetting[1]]

\* turnOnSyncWhenContext, line 888.
turnOnSyncWhenContext(context) ==
    /\ context.syncStatus # Uninitialized
    /\ ~context.syncEnablement
    /\ context.authTokenState # Initializing

\* The sign-in entry's `when` without its test of the authentication state.
signInWhen_anyAuthState(context) ==
    /\ context.syncStatus # Uninitialized
    /\ context.syncEnablement

\* The `when` of the sign-in action's Global Activity entry, line 931.
signInWhen(context) ==
    /\ context.syncStatus # Uninitialized
    /\ context.syncEnablement
    /\ context.authTokenState = SignedOut

\* The `when` of the sync status action's entries, line 1032.
syncStatusWhen(context) ==
    /\ context.syncEnablement
    /\ context.authTokenState = SignedIn
    /\ context.syncStatus # Uninitialized

\* The entries of lines 898-906, 923-934 and 1033-1044 that the Global
\* Activity menu shows in a context, by title.
GlobalActivitySyncEntries(context) ==
    {title \in {"Turn on Preferences Sync...", "Sign in to sync",
                "Preferences sync is on"} :
        CASE title = "Turn on Preferences Sync..." -> turnOnSyncWhenContext(context)
          [] title = "Sign in to sync" -> signInWhen(context)
          [] title = "Preferences sync is on" -> syncStatusWhen(context)}

\* --------------------------------------------------------- timeline
TimelinePaneId == "timeline"

\* The descriptor registered without a `when` clause.
TimelinePaneWhen_always(context) == TRUE

\* TimelinePaneDescriptor.when, line 27:
\* ContextKeyExpr.equals('config.timeline.showView', true).
TimelinePaneWhen(context) == context.configTimelineShowView = TRUE

\* The views registered in the Explorer container by line 59 that a context
\* admits.
ExplorerViews(context) ==
    IF TimelinePaneWhen(context) THEN {TimelinePaneId} ELSE {}

\* The qualities a product is built with; "" stands for a build without
\* one (product.quality undefined).
ProductQualities == {"stable", "insider", "exploration", ""}

\* The user sets timeline.showView, or removes it from the settings.
ShowViewSettingChanged ==
    \E value \in {<<>>, <<TRUE>>, <<FALSE>>} \ {showViewSetting} :
        /\ showViewSetting' = value
        /\ UNCHANGED <<syncVars, notebookVars, productQuality, showViewDefault>>

\* ------------------------------------------------- invalid content
\* workbenchEnvironmentService.settingsResource and .keybindingsResource,
\* the resource of another file, and no resource (undefined).
settingsResource == "settings.json"
keybindingsResource == "keybindings.json"
OtherResource == "other.txt"
NoResource == ""

\* The editor inputs editorService.activeEditor may be: none (undefined), the
\* editor of a file, or a side-by-side editor with a details and a master
\* side (its own resource is that of the details side).
NoEditor == [kind |-> "none", resource |-> NoResource, master |-> NoResource]
FileEditor(resource) == [kind |-> "file", resource |-> resource, master |-> NoResource]
SideBySideInput(details, master) ==
    [kind |-> "sideBySide", resource |-> details, master |-> master]

\* toResource(editor, { supportSideBySide: SideBySideEditor.MASTER }), line 551.
toResource(editor) ==
    IF editor.kind = "none" THEN NoResource
    ELSE IF editor.kind = "sideBySide" THEN editor.master
    ELSE editor.resource

\* handleInvalidContentError without the test of lines 551-554.
handleInvalidContentError_withoutActiveTest(s, source) ==
    IF source \in s.invalidContentErrorDisposables
    THEN s
    ELSE IF source # Settings /\ source # Keybindings
    THEN s
    ELSE [Call(s, "notificationService", "notify",
               <<"Error", "errorInvalidConfiguration",
                 toLowerCase(getSyncAreaLabel(source))>>)
          EXCEPT !.invalidContentErrorDisposables = @ \cup {source}]

\* handleInvalidContentError, lines 543-569.
handleInvalidContentError(s, source) ==
    IF source \in s.invalidContentErrorDisposables
    THEN s
    ELSE IF source # Settings /\ source # Keybindings
    THEN s
    ELSE LET resource == IF source = Settings THEN settingsResource
                         ELSE keybindingsResource
         IN  IF resource = toResource(s.activeEditor)
             THEN \* Do not show notification if the file in error is active
                  s
             ELSE LET errorArea == getSyncAreaLabel(source)
                  IN  [Call(s, "notificationService", "notify",
                            <<"Error", "errorInvalidConfiguration",
                              toLowerCase(errorArea)>>)
                       EXCEPT !.invalidContentErrorDisposables = @ \cup {source}]

\* The disposable of lines 564-568, disposed: the notification is closed and
\* the entry deleted.
disposeInvalidContentError(s, source) ==
    IF source \in s.invalidContentErrorDisposables
    THEN [Call(s, "notificationHandle", "close", source)
          EXCEPT !.invalidContentErrorDisposables = @ \ {source}]
    ELSE s

\* this.invalidContentErrorDisposables.forEach(d => d.dispose()), line 538.
RECURSIVE disposeAllInvalidContentErrors(_, _)
disposeAllInvalidContentErrors(s, keys) ==
    IF keys = {} THEN s
    ELSE LET k == CHOOSE x \in keys : TRUE
         IN  disposeAllInvalidContentErrors(disposeInvalidContentError(s, k),
                                            keys \ {k})

\* for (const [source, error] of errors), lines 524-536.
RECURSIVE onSyncErrorsLoop(_, _)
onSyncErrorsLoop(s, errors) ==
    IF Len(errors) = 0 THEN s
    ELSE LET source == Head(errors)[1]
             error == Head(errors)[2]
         IN  onSyncErrorsLoop(
                 IF error.code = LocalInvalidContent
                 THEN handleInvalidContentError(s, source)
                 ELSE disposeInvalidContentError(s, source),
                 Tail(errors))

\* onSyncErrors, lines 522-541.
onSyncErrors(s, errors) ==
    IF Len(errors) # 0
    THEN onSyncErrorsLoop(s, errors)
    ELSE disposeAllInvalidContentErrors(s, s.invalidContentErrorDisposables)

\* ------------------------------------------------------- the account

\* setActiveAccount, lines 229-247, to its first await: with an account it
\* stops at account.getAccessToken(); without one it runs to its end.
setActiveAccountSync(s, account) ==
    LET s1 == [s EXCEPT !.activeAccount = account]
    IN  IF account # NoAccount
        THEN s1
        ELSE updateBadge([s1 EXCEPT !.token = NoToken,
                                    !.authenticationState = SignedOut])

\* setActiveAccount after account.getAccessToken() resolved, lines 235-236, 246.
tokenResolved(s, id) ==
    updateBadge([s EXCEPT !.token = AccessToken(id),
                          !.authenticationState = SignedIn])

\* The catch block of setActiveAccount signing out.
tokenRejected_signedOut(s) ==
    updateBadge([s EXCEPT !.token = NoToken,
                          !.authenticationState = SignedOut])

\* setActiveAccount after account.getAccessToken() rejected, lines 238-239, 246.
tokenRejected(s) ==
    updateBadge([s EXCEPT !.token = NoToken,
                          !.authenticationState = Unavailable])

\* this.setActiveAccount(account), not awaited by its caller: with an account
\* its getAccessToken() call is left in flight.
setActiveAccount(s, account) ==
    LET s1 == setActiveAccountSync(s, account)
    IN  IF account # NoAccount
        THEN [s1 EXCEPT !.pendingTokens[account] = @ + 1]
        ELSE s1

\* The getAccessToken() calls in flight.
RECURSIVE SumOver(_, _)
SumOver(f, keys) ==
    IF keys = {} THEN 0
    ELSE LET k == CHOOSE x \in keys : TRUE
         IN  f[k] + SumOver(f, keys \ {k})
PendingCount(s) == SumOver(s.pendingTokens, DOMAIN s.pendingTokens)

\* onDidUnregisterAuthenticationProvider, lines 344-349.
onDidUnregisterAuthenticationProvider(s) ==
    [setActiveAccount(s, NoAccount) EXCEPT !.authenticationState = Initializing]

\* ------------------------------------------------------------- turn on
IdleTurnOn == [pc |-> "idle", skipAccountPick |-> FALSE, caller |-> "",
               account |-> NoAccount, signIn |-> "none", firstTime |-> "none"]
TurnOnEnded == {"idle", "returned", "done", "canceled", "failed", "hung"}

\* The quick pick of lines 618-647 is shown.
showTurnOnQuickPick(s) ==
    [Call(s, "quickInputService", "createQuickPick", "turn on title")
     EXCEPT !.turnOnFlow.pc = "quickPick"]

\* turnOn, lines 589-617, to its first await.
turnOn(s, skipAccountPick, caller) ==
    LET s1 == [s EXCEPT !.turnOnFlow =
                   [IdleTurnOn EXCEPT !.skipAccountPick = skipAccountPick,
                                      !.caller = caller]]
    IN  IF ~s.donotAskPreviewConfirmation
        THEN [Call(s1, "dialogService", "show", "sync preview message")
              EXCEPT !.turnOnFlow.pc = "previewDialog"]
        ELSE IF skipAccountPick
        THEN [Call(s1, "dialogService", "confirm", "turn on sync confirmation")
              EXCEPT !.turnOnFlow.pc = "confirmDialog"]
        ELSE showTurnOnQuickPick(s1)

\* The command's catch of lines 889-897 without its isPromiseCanceledError
\* test: every rejection is notified.
turnOnRejected_notifiesCancel(s, reason) ==
    LET s1 == [s EXCEPT !.turnOnFlow.pc =
                   IF reason = "canceled" THEN "canceled" ELSE "failed"]
    IN  IF s.turnOnFlow.caller = "command"
        THEN Call(s1, "notificationService", "error", "turn on failed")
        ELSE s1

\* turnOn's promise rejects with `reason` ("canceled": canceled(); anything
\* else: an error).  Only the command of lines 889-897 catches it.
turnOnRejected(s, reason) ==
    LET s1 == [s EXCEPT !.turnOnFlow.pc =
                   IF reason = "canceled" THEN "canceled" ELSE "failed"]
    IN  IF s.turnOnFlow.caller = "command" /\ reason # "canceled"
        THEN Call(s1, "notificationService", "error", "turn on failed")
        ELSE s1

\* doTurnOn, lines 688-690.
turnOnFinish(s) ==
    LET s1 == setEnablement(s, TRUE)
        s2 == Call(s1, "notificationService", "info", "sync turned on")
        s3 == Call(s2, "storageService", "store", "sync.donotAskPreviewConfirmation")
    IN  [s3 EXCEPT !.donotAskPreviewConfirmation = TRUE,
                   !.turnOnFlow.pc = "done"]

\* handleFirstTimeSync, line 750, to its await.
handleFirstTimeSync(s) ==
    [Call(s, "userDataSyncService", "isFirstTimeSyncWithMerge", "")
     EXCEPT !.turnOnFlow.pc = "firstTimeCheck"]

\* signIn, line 818, to the await of authenticationService.login.
signIn(s) ==
    [Call(s, "authenticationService", "login", "")
     EXCEPT !.turnOnFlow.pc = "login"]

\* doTurnOn without the sign-in of lines 684-686.
doTurnOnSignIn_withoutSignIn(s) == handleFirstTimeSync(s)

\* doTurnOn, lines 684-687, to the next await.
doTurnOnSignIn(s) ==
    IF s.authenticationState = SignedOut THEN signIn(s) ELSE handleFirstTimeSync(s)

\* doTurnOn, lines 650-683, to its first await.  Building the picker reads
\* this.activeAccount!.accountName: a TypeError without an active account.
doTurnOn(s) ==
    IF s.authenticationState = SignedIn /\ ~s.turnOnFlow.skipAccountPick
    THEN IF s.activeAccount = NoAccount
         THEN turnOnRejected(s, "TypeError")
         ELSE [Call(s, "quickInputService", "createQuickPick", "pick account")
               EXCEPT !.turnOnFlow.pc = "accountPick"]
    ELSE doTurnOnSignIn(s)

\* updateConfiguration, lines 712-720.
updateConfiguration(s, selectedItems) ==
    [s EXCEPT !.resourceEnabled =
        [item \in SyncResource |->
            LET wasEnabled == s.resourceEnabled[item]
                isEnabled == item \in selectedItems
            IN  IF wasEnabled # isEnabled THEN isEnabled ELSE wasEnabled]]

\* ------------------------------------------------------------ turn off
\* A turnOff(): where it waits, who awaits it, and its local `result`.
IdleTurnOff == [pc |-> "idle", caller |-> "", confirmed |-> FALSE,
                checkboxChecked |-> FALSE]
TurnOffEnded == {"idle", "returned", "done", "failed"}

\* turnOff, lines 781-790, to the await of the confirmation dialog.
turnOff(s, caller) ==
    [Call(s, "dialogService", "confirm", "turn off sync confirmation")
     EXCEPT !.turnOffFlow = [IdleTurnOff EXCEPT !.pc = "dialog", !.caller = caller]]

\* ------------------------------------------------- the account handlers
IdleAccount == [pc |-> "idle", origin |-> "", offered |-> {}, account |-> NoAccount,
                added |-> {}, removed |-> {}, changed |-> {},
                activeWasRemoved |-> FALSE]
AccountEnded == {"idle", "done", "failed"}

\* The handler has returned (pc "done") or thrown (pc "failed").
accountEnded(s, pc) == [s EXCEPT !.accountFlow = [IdleAccount EXCEPT !.pc = pc]]

\* showSwitchAccountPicker, lines 249-277, to the picker being shown.
showSwitchAccountPicker(s, pc) ==
    [Call(s, "quickInputService", "createQuickPick", "chooseAccountTitle")
     EXCEPT !.accountFlow.pc = pc, !.accountFlow.offered = s.sessions]

\* initializeActiveAccount has returned to its caller: onDidChangeSessions,
\* lines 320-323, prompts to turn sync on when an account became active (a
\* turnOn already running is left alone by the model); the constructor and
\* onDidRegisterAuthenticationProvider do nothing that is modelled.
initializeReturned(s) ==
    LET s1 == accountEnded(s, "done")
    IN  IF /\ s.accountFlow.origin = "sessions"
           /\ s1.activeAccount # NoAccount
           /\ s1.turnOnFlow.pc \in TurnOnEnded
        THEN turnOn(s1, TRUE, "sessions")
        ELSE s1

\* initializeActiveAccount, line 183, to the await of getSessions.
initializeActiveAccount(s, origin) ==
    [Call(s, "authenticationService", "getSessions", "")
     EXCEPT !.accountFlow = [IdleAccount EXCEPT !.pc = "initGetSessions",
                                                !.origin = origin]]

\* initializeActiveAccount without lines 201-208: the stored preference is
\* not looked at.
initializeSessionsResolved_withoutPreference(s) ==
    IF ~s.providerRegistered
    THEN initializeReturned(s)
    ELSE IF Cardinality(s.sessions) = 0
    THEN initializeReturned(setActiveAccountSync(s, NoAccount))
    ELSE IF Cardinality(s.sessions) = 1
    THEN LET only == CHOOSE id \in s.sessions : TRUE
         IN  [setActiveAccountSync(s, only) EXCEPT !.accountFlow.pc = "initToken",
                                                   !.accountFlow.account = only]
    ELSE showSwitchAccountPicker(s, "initPicker")

\* initializeActiveAccount, lines 184-210, once getSessions has resolved, to
\* the next await.  getSessions resolves with undefined while the provider is
\* not registered.
initializeSessionsResolved(s) ==
    IF ~s.providerRegistered
    THEN initializeReturned(s)
    ELSE IF Cardinality(s.sessions) = 0
    THEN initializeReturned(setActiveAccountSync(s, NoAccount))
    ELSE IF Cardinality(s.sessions) = 1
    THEN LET only == CHOOSE id \in s.sessions : TRUE
         IN  [setActiveAccountSync(s, only) EXCEPT !.accountFlow.pc = "initToken",
                                                   !.accountFlow.account = only]
    ELSE IF s.accountPreference # "" /\ s.accountPreference \in s.sessions
    THEN initializeReturned(setActiveAccount(s, s.accountPreference))
    ELSE showSwitchAccountPicker(s, "initPicker")

\* onDidChangeSessions, lines 301-316: after the removed sessions.
sessionsAfterRemoved(s) ==
    IF s.accountFlow.added # {}
    THEN [Call(s, "authenticationService", "getSessions", "")
          EXCEPT !.accountFlow.pc = "addedGetSessions"]
    ELSE IF s.accountFlow.changed # {}
    THEN IF s.activeAccount = NoAccount
         THEN \* this.activeAccount!.id of undefined: a TypeError
              accountEnded(s, "failed")
         ELSE IF s.activeAccount \in s.accountFlow.changed
         THEN [Call(s, "authenticationService", "getSessions", "")
               EXCEPT !.accountFlow.pc = "changedGetSessions"]
         ELSE accountEnded(s, "done")
    ELSE accountEnded(s, "done")

\* onDidChangeSessions, lines 279-326, to its first await; the event is of
\* the sync store's authentication provider.
onDidChangeSessions(s, event) ==
    LET s1 == [s EXCEPT !.accountFlow =
                   [IdleAccount EXCEPT !.origin = "sessions",
                                       !.added = event.added,
                                       !.removed = event.removed,
                                       !.changed = event.changed]]
    IN  IF s.activeAccount # NoAccount
        THEN IF event.removed # {} /\ s.activeAccount \in event.removed
             THEN [Call(s1, "authenticationService", "getSessions", "")
                   EXCEPT !.accountFlow.pc = "removedGetSessions",
                          !.accountFlow.activeWasRemoved = TRUE]
             ELSE sessionsAfterRemoved(s1)
        ELSE initializeActiveAccount(s1, "sessions")

\* onDidChangeSessions, lines 288-296, once getSessions has resolved.
sessionsRemovedResolved(s) ==
    IF s.sessions # {}
    THEN showSwitchAccountPicker(s, "removedPicker")
    ELSE [turnOff(s, "sessions") EXCEPT !.accountFlow.pc = "turnOff"]

\* onDidChangeSessions, lines 294-295: turnOff() has returned.
sessionsTurnOffReturned(s) ==
    accountEnded(setActiveAccount(s, NoAccount), "done")

\* turnOff's promise settles: lines 1113-1121 for the command, lines 293-295
\* for onDidChangeSessions, which an error leaves by its rejection.
turnOffSettled(s, pc) ==
    LET s1 == [s EXCEPT !.turnOffFlow.pc = pc]
    IN  IF s.turnOffFlow.caller = "sessions"
        THEN IF pc = "failed"
             THEN accountEnded(s1, "failed")
             ELSE sessionsTurnOffReturned(s1)
        ELSE IF pc = "failed"
        THEN Call(s1, "notificationService", "error", "turn off failed")
        ELSE s1

\* turnOff with disableSync() called before the reset is awaited.
turnOffConfirmed_disablesFirst(s0, result) ==
    LET s == [s0 EXCEPT !.turnOffFlow.confirmed = result.confirmed,
                        !.turnOffFlow.checkboxChecked = result.checkboxChecked]
    IN  IF result.confirmed
        THEN [Call(disableSync(s, ""), "userDataSyncService",
                   IF result.checkboxChecked THEN "reset" ELSE "resetLocal", "")
              EXCEPT !.turnOffFlow.pc = "reset"]
        ELSE turnOffSettled(s, "returned")

\* turnOff, lines 791-799, once the dialog is answered, to the next await.
turnOffConfirmed(s0, result) ==
    LET s == [s0 EXCEPT !.turnOffFlow.confirmed = result.confirmed,
                        !.turnOffFlow.checkboxChecked = result.checkboxChecked]
    IN  IF result.confirmed
        THEN IF result.checkboxChecked
             THEN [Call(s, "userDataSyncService", "reset", "")
                   EXCEPT !.turnOffFlow.pc = "reset"]
             ELSE [Call(s, "userDataSyncService", "resetLocal", "")
                   EXCEPT !.turnOffFlow.pc = "reset"]
        ELSE turnOffSettled(s, "returned")

\* turnOff, line 798, once reset()/resetLocal() has resolved.
turnOffReset(s) ==
    turnOffSettled(disableSync(s, ""), "done")

\* -------------------------------------------- the notification's actions
IdleConflicts == [pc |-> "idle", action |-> "", conflicts |-> <<>>, i |-> 0,
                  accepted |-> <<>>, error |-> FALSE]
ConflictsEnded == {"idle", "done"}

\* modelRef.object.textEditorModel.getValue(): the text of a resource's model.
getValue(resource) == <<"text of", resource[1], resource[2], resource[3]>>

\* Both actions accepting the local preview.
acceptedResource_alwaysLocal(action, conflict) == conflict.local

\* The resource acceptRemote (lines 443-444) and acceptLocal (lines 455-456)
\* resolve and accept for a conflict.
acceptedResource(action, conflict) ==
    IF action = "acceptRemote" THEN conflict.remote ELSE conflict.local

\* The head of the loops of lines 442, 454 and 847 for conflict i, to the
\* await of createModelReference (resp. of openEditor).  When the function
\* returns, its locals are gone: what it accepted and whether it failed stay.
conflictsFlowNext(s, i) ==
    IF i > Len(s.conflictsFlow.conflicts)
    THEN [s EXCEPT !.conflictsFlow.pc = "done", !.conflictsFlow.conflicts = <<>>,
                   !.conflictsFlow.i = 0]
    ELSE LET conflict == s.conflictsFlow.conflicts[i]
         IN  IF s.conflictsFlow.action = "handleConflicts"
             THEN [Call(s, "editorService", "openEditor",
                        <<conflict.remote, conflict.local>>)
                   EXCEPT !.conflictsFlow.pc = "openEditor", !.conflictsFlow.i = i]
             ELSE [Call(s, "textModelResolverService", "createModelReference",
                        acceptedResource(s.conflictsFlow.action, conflict))
                   EXCEPT !.conflictsFlow.pc = "resolve", !.conflictsFlow.i = i]

\* An action of the conflicts notification runs (lines 393-410) with the
\* conflicts the notification was created for.
conflictsAction(s, action, conflicts) ==
    conflictsFlowNext(
        [s EXCEPT !.conflictsFlow =
            [IdleConflicts EXCEPT !.action = action, !.conflicts = conflicts]], 1)

\* Lines 444 and 456: the model is resolved; acceptConflict is called with
\* the resource and its model's text.
acceptModelResolved(s) ==
    LET resource == acceptedResource(s.conflictsFlow.action,
                                     s.conflictsFlow.conflicts[s.conflictsFlow.i])
        accepted == [resource |-> resource, content |-> getValue(resource)]
    IN  [Call(s, "userDataSyncService", "acceptConflict", accepted)
         EXCEPT !.conflictsFlow.pc = "accept",
                !.conflictsFlow.accepted = Append(@, accepted)]

\* Lines 447-449 and 459-461: an await of the loop rejected.
acceptFailed(s) ==
    [Call(s, "notificationService", "error", "e")
     EXCEPT !.conflictsFlow.pc = "done", !.conflictsFlow.error = TRUE,
            !.conflictsFlow.conflicts = <<>>, !.conflictsFlow.i = 0]

\* Lines 445 and 457, and the next turn of the loop.
acceptConflictResolved(s) == conflictsFlowNext(s, s.conflictsFlow.i + 1)

\* Lines 856-865: openEditor resolved, the diff editor of the conflict is open.
editorOpened(s) ==
    conflictsFlowNext(
        [s EXCEPT !.editors =
            @ \cup {s.conflictsFlow.conflicts[s.conflictsFlow.i].local}],
        s.conflictsFlow.i + 1)

\* ---------------------------------------------------------- the service
\* The values userDataSyncService.conflicts takes: resources in conflict,
\* none twice, in the order of the service's synchronisers; the snippets
\* with 1..MaxConflicts conflicts.
ConflictsOf(syncResource, n) ==
    [syncResource |-> syncResource,
     conflicts |-> [k \in 1..n |-> Conflict(syncResource, k)]]

ConflictsValues(order) ==
    UNION {
        {c \in [1..len -> {ConflictsOf(Settings, 1), ConflictsOf(Keybindings, 1)}
                           \cup {ConflictsOf(Snippets, n) : n \in 1..MaxConflicts}] :
            \A i, j \in 1..len :
                i < j => \E a, b \in DOMAIN order :
                            /\ a < b
                            /\ order[a] = c[i].syncResource
                            /\ order[b] = c[j].syncResource}
        : len \in 0..Len(order) }

\* The orders the service may keep its synchronisers in.
SynchroniserOrders ==
    {order \in [1..Cardinality(ConflictResource) -> ConflictResource] :
        \A a, b \in DOMAIN order : a # b => order[a] # order[b]}

\* ---------------------------------------------------------------- steps
\* A step leaves state s, within the bound on token requests in flight.
Step(s) ==
    /\ PendingCount(s) <= MaxPending
    /\ Commit(s)

\* The service's status changes and onDidChangeStatus fires: the debounce
\* of line 161 (re)starts its timer.
StatusChanged ==
    \E status \in SyncStatus \ {svcStatus} :
        Commit([Cur EXCEPT !.svcStatus = status, !.debounceTimer = DebounceTicks])

\* Time passes while the debounce timer runs.
Tick ==
    /\ debounceTimer > 0
    /\ Commit([Cur EXCEPT !.debounceTimer = @ - 1])

\* The debounce delay has passed: the listener of line 161 runs with the
\* status the service holds now.
DebounceFire ==
    /\ debounceTimer = 0
    /\ Commit(onDidChangeSyncStatus([Cur EXCEPT !.debounceTimer = -1], svcStatus))

\* The service's conflicts change and onDidChangeConflicts fires (line 162).
ConflictsChanged ==
    \E conflicts \in ConflictsValues(synchronisers) \ {svcConflicts} :
        Commit(onDidChangeConflicts([Cur EXCEPT !.svcConflicts = conflicts]))

\* Sync is enabled or disabled from outside this contribution (another
\* window): the enablement service fires onDidChangeEnablement (line 165).
EnablementChanged ==
    \E isEnabled \in BOOLEAN \ {enabled} :
        Commit(enablementStored(Cur, isEnabled))

\* userDataAutoSyncService.onError fires (line 169).
AutoSyncError ==
    \E code \in UserDataSyncErrorCode, resource \in SyncResource :
        Commit(onAutoSyncError(Cur, [code |-> code, resource |-> resource]))

\* The errors userDataSyncService.onSyncErrors reports: at most MaxErrors
\* resources in error, none twice, each with the code of its error.
SyncErrorsValues ==
    UNION { {errors \in [1..len -> {Settings, Keybindings, Extensions}
                                      \X {[code |-> LocalInvalidContent],
                                          [code |-> UnknownError]}] :
                \A i, j \in 1..len : i # j => errors[i][1] # errors[j][1]}
            : len \in 0..MaxErrors }

\* userDataSyncService.onSyncErrors fires (line 163).
SyncErrors ==
    \E errors \in SyncErrorsValues :
        Commit(onSyncErrors([Cur EXCEPT !.svcErrors = errors], errors))

\* The editors that may be active: none, a file's editor, or a side-by-side
\* editor (a diff) of two files.
EditorInputs ==
    {NoEditor}
        \cup {FileEditor(r) : r \in {settingsResource, keybindingsResource, OtherResource}}
        \cup {SideBySideInput(d, m) :
                d \in {settingsResource, OtherResource},
                m \in {settingsResource, keybindingsResource, OtherResource}}

\* The user makes another editor the active one, or closes the last one.
ActiveEditorChanged ==
    \E editor \in EditorInputs \ {activeEditor} :
        Commit([Cur EXCEPT !.activeEditor = editor])

\* The "Open ... File" action of an invalid-content notification is run
\* (lines 560-561): the file's editor opens and becomes the active one.
OpenSyncFileActionRun ==
    \E source \in invalidContentErrorDisposables :
        Commit([Call(Cur, "preferencesService",
                     IF source = Settings THEN "openGlobalSettings"
                     ELSE "openGlobalKeybindingSettings", TRUE)
                EXCEPT !.activeEditor =
                    FileEditor(IF source = Settings THEN settingsResource
                               ELSE keybindingsResource)])

\* What the user may leave selected in the pickers of lines 618-647 and
\* 722-747: Settings and Keybindings on or off, the other resources on.
SelectedItemsValues ==
    {(SyncResource \ {Settings, Keybindings}) \cup picked :
        picked \in SUBSET {Settings, Keybindings}}

\* configureSyncOptions, lines 722-747: the picker is accepted.
ConfigureSync ==
    \E selectedItems \in SelectedItemsValues :
        Commit(updateConfiguration(Cur, selectedItems))

\* "Accept Remote" or "Accept Local" of the open conflicts notification of a
\* resource is run (lines 393-403).
AcceptActionRun ==
    \E syncResource \in DOMAIN conflictsDisposables,
       action \in {"acceptRemote", "acceptLocal"} :
        /\ conflictNotifications[syncResource] > 0
        /\ conflictsFlow.pc \in ConflictsEnded
        /\ Commit(conflictsAction(Cur, action, conflictsDisposables[syncResource]))

\* "Show Conflicts" of the open conflicts notification of a resource is run
\* (lines 406-410).
ShowConflictsActionRun ==
    \E syncResource \in DOMAIN conflictsDisposables :
        /\ conflictNotifications[syncResource] > 0
        /\ conflictsFlow.pc \in ConflictsEnded
        /\ Commit(conflictsAction(Cur, "handleConflicts",
                                  conflictsDisposables[syncResource]))

\* handleSyncResourceConflicts, lines 839-844: a show-conflicts command.
ShowConflictsCommand ==
    \E i \in DOMAIN svcConflicts :
        /\ conflictsFlow.pc \in ConflictsEnded
        /\ Commit(conflictsAction(Cur, "handleConflicts", svcConflicts[i].conflicts))

AcceptModelResolved ==
    /\ conflictsFlow.pc = "resolve"
    /\ Commit(acceptModelResolved(Cur))

AcceptModelRejected ==
    /\ conflictsFlow.pc = "resolve"
    /\ Commit(acceptFailed(Cur))

AcceptConflictResolved ==
    /\ conflictsFlow.pc = "accept"
    /\ Commit(acceptConflictResolved(Cur))

AcceptConflictRejected ==
    /\ conflictsFlow.pc = "accept"
    /\ Commit(acceptFailed(Cur))

EditorOpened ==
    /\ conflictsFlow.pc = "openEditor"
    /\ Commit(editorOpened(Cur))

\* The user closes a conflicts preview editor.
EditorClosed ==
    \E input \in editors :
        Commit([Cur EXCEPT !.editors = @ \ {input}])

\* ------------------------------------------------------- account steps

\* onTokenFailed, lines 328-336, to its await, or to its end.
TokenFailed ==
    /\ ~tokenFailedFlow
    /\ IF activeAccount # NoAccount
       THEN Commit([Call(Cur, "authenticationService", "getSessions", "")
                    EXCEPT !.tokenFailedFlow = TRUE])
       ELSE Commit(setActiveAccount(Cur, NoAccount))

\* onTokenFailed, lines 330-332, once getSessions has resolved.
TokenFailedSessionsResolved ==
    /\ tokenFailedFlow
    /\ LET matchingAccount ==
               IF activeAccount \in sessions THEN activeAccount ELSE NoAccount
       IN  Step(setActiveAccount([Cur EXCEPT !.tokenFailedFlow = FALSE],
                                 matchingAccount))

\* The getAccessToken() of an unawaited setActiveAccount resolves.
PendingTokenResolved ==
    \E id \in SessionIds :
        /\ pendingTokens[id] > 0
        /\ Commit(tokenResolved([Cur EXCEPT !.pendingTokens[id] = @ - 1], id))

\* The getAccessToken() of an unawaited setActiveAccount rejects.
PendingTokenRejected ==
    \E id \in SessionIds :
        /\ pendingTokens[id] > 0
        /\ Commit(tokenRejected([Cur EXCEPT !.pendingTokens[id] = @ - 1]))

\* The sync store's authentication provider is unregistered (line 167).
ProviderUnregistered ==
    /\ providerRegistered
    /\ Commit(onDidUnregisterAuthenticationProvider(
           [Cur EXCEPT !.providerRegistered = FALSE, !.sessions = {}]))

\* The sync store's authentication provider is registered (line 166):
\* onDidRegisterAuthenticationProvider, lines 338-342.
ProviderRegistered ==
    \E held \in SUBSET SessionIds :
        /\ ~providerRegistered
        /\ accountFlow.pc \in AccountEnded
        /\ Commit(initializeActiveAccount(
               [Cur EXCEPT !.providerRegistered = TRUE, !.sessions = held],
               "register"))

\* The provider's sessions change and onDidChangeSessions fires (line 168).
SessionsChanged ==
    \E held \in SUBSET SessionIds :
        /\ providerRegistered
        /\ held # sessions
        /\ accountFlow.pc \in AccountEnded
        /\ Commit(onDidChangeSessions(
               [Cur EXCEPT !.sessions = held],
               [added |-> held \ sessions, removed |-> sessions \ held,
                changed |-> {}]))

\* A session's access token was refreshed: onDidChangeSessions fires with
\* the session as changed.
SessionRefreshed ==
    \E id \in sessions :
        /\ accountFlow.pc \in AccountEnded
        /\ Step(onDidChangeSessions(Cur,
               [added |-> {}, removed |-> {}, changed |-> {id}]))

InitSessionsResolved ==
    /\ accountFlow.pc = "initGetSessions"
    /\ Step(initializeSessionsResolved(Cur))

\* initializeActiveAccount, line 196: the awaited setActiveAccount ends,
\* with the token of the account it was called with.
InitTokenResolved ==
    /\ accountFlow.pc = "initToken"
    /\ Commit(initializeReturned(tokenResolved(Cur, accountFlow.account)))

InitTokenRejected ==
    /\ accountFlow.pc = "initToken"
    /\ Commit(initializeReturned(tokenRejected(Cur)))

\* The continuation of the account picker's caller.
accountPickerReturned(s) ==
    CASE s.accountFlow.pc = "initPicker" -> initializeReturned(s)
      [] s.accountFlow.pc = "removedPicker" -> sessionsAfterRemoved(s)
      [] s.accountFlow.pc = "addedPicker" -> accountEnded(s, "done")

\* showSwitchAccountPicker, lines 267-273: an account is accepted.
AccountPicked ==
    \E id \in accountFlow.offered :
        /\ accountFlow.pc \in {"initPicker", "removedPicker", "addedPicker"}
        /\ LET s1 == setActiveAccount(Cur, id)
               s2 == Call(s1, "storageService", "store", id)
           IN  Step(accountPickerReturned([s2 EXCEPT !.accountPreference = id]))

\* showSwitchAccountPicker, lines 262-265: the picker is hidden.
AccountPickerHidden ==
    /\ accountFlow.pc \in {"initPicker", "removedPicker", "addedPicker"}
    /\ Commit(accountPickerReturned(Cur))

RemovedSessionsResolved ==
    /\ accountFlow.pc = "removedGetSessions"
    /\ sessions = {} => turnOffFlow.pc \in TurnOffEnded
    /\ Commit(sessionsRemovedResolved(Cur))

\* onDidChangeSessions, lines 303-305.
AddedSessionsResolved ==
    /\ accountFlow.pc = "addedGetSessions"
    /\ Commit(showSwitchAccountPicker(Cur, "addedPicker"))

\* onDidChangeSessions, lines 312-314.
ChangedSessionsResolved ==
    /\ accountFlow.pc = "changedGetSessions"
    /\ LET matchingAccount ==
               IF activeAccount \in sessions THEN activeAccount ELSE NoAccount
       IN  Step(setActiveAccount(accountEnded(Cur, "done"), matchingAccount))

\* ------------------------------------------------------ turn-off steps

\* The command of lines 1113-1121.
TurnOffCommand ==
    /\ turnOffFlow.pc \in TurnOffEnded
    /\ Commit(turnOff(Cur, "command"))

TurnOffDialogAnswered ==
    \E confirmed \in BOOLEAN, checkboxChecked \in BOOLEAN :
        /\ turnOffFlow.pc = "dialog"
        /\ Commit(turnOffConfirmed(Cur, [confirmed |-> confirmed,
                                         checkboxChecked |-> checkboxChecked]))

ResetResolved ==
    /\ turnOffFlow.pc = "reset"
    /\ Commit(turnOffReset(Cur))

ResetRejected ==
    /\ turnOffFlow.pc = "reset"
    /\ Commit(turnOffSettled(Cur, "failed"))

\* ------------------------------------------------------- turn-on steps

\* The command of lines 889-897.
TurnOnCommand ==
    /\ turnOnFlow.pc \in TurnOnEnded
    /\ Commit(turnOn(Cur, FALSE, "command"))

\* turnOn, lines 603-606.
PreviewDialogAnswered ==
    \E choice \in {0, 1, 2} :
        /\ turnOnFlow.pc = "previewDialog"
        /\ IF choice = 0
           THEN Commit([Call(Cur, "openerService", "open", "settings-sync-help")
                        EXCEPT !.turnOnFlow.pc = "returned"])
           ELSE IF choice = 2
           THEN Commit([Cur EXCEPT !.turnOnFlow.pc = "returned"])
           ELSE Commit(showTurnOnQuickPick(Cur))

\* turnOn, lines 613-615.
ConfirmDialogAnswered ==
    \E confirmed \in BOOLEAN :
        /\ turnOnFlow.pc = "confirmDialog"
        /\ IF confirmed
           THEN Commit(showTurnOnQuickPick(Cur))
           ELSE Commit([Cur EXCEPT !.turnOnFlow.pc = "returned"])

\* turnOn, lines 638-644: the quick pick is accepted with a selection.
TurnOnQuickPickAccepted ==
    \E selectedItems \in SelectedItemsValues :
        /\ turnOnFlow.pc = "quickPick"
        /\ Commit(doTurnOn(updateConfiguration(Cur, selectedItems)))

\* turnOn, line 645: the quick pick is hidden; turnOn's promise stays pending.
TurnOnQuickPickHidden ==
    /\ turnOnFlow.pc = "quickPick"
    /\ Commit([Cur EXCEPT !.turnOnFlow.pc = "hung"])

\* doTurnOn, lines 670-679: an item of the account picker is accepted.
AccountPickAccepted ==
    \E item \in {"existing", "chooseAnother"} :
        /\ turnOnFlow.pc = "accountPick"
        /\ IF item = "chooseAnother"
           THEN IF activeAccount = NoAccount
                THEN \* this.activeAccount!.id of undefined: the handler throws
                     Commit([Cur EXCEPT !.turnOnFlow.pc = "hung"])
                ELSE Commit([Call(Cur, "authenticationService", "logout", activeAccount)
                             EXCEPT !.turnOnFlow.pc = "logout",
                                    !.turnOnFlow.account = activeAccount])
           ELSE Commit(doTurnOnSignIn(Cur))

\* doTurnOn, line 680: the account picker is hidden; doTurnOn stays pending.
AccountPickHidden ==
    /\ turnOnFlow.pc = "accountPick"
    /\ Commit([Cur EXCEPT !.turnOnFlow.pc = "hung"])

\* doTurnOn, lines 673-677: logout resolved.
LogoutResolved ==
    /\ turnOnFlow.pc = "logout"
    /\ Commit(doTurnOnSignIn(
           setActiveAccountSync(
               [Cur EXCEPT !.sessions = @ \ {turnOnFlow.account}], NoAccount)))

\* logout rejected: the accept handler throws, doTurnOn stays pending.
LogoutRejected ==
    /\ turnOnFlow.pc = "logout"
    /\ Commit([Cur EXCEPT !.turnOnFlow.pc = "hung"])

\* signIn, line 818: login resolved with a session; setActiveAccount runs to
\* its await.
LoginResolved ==
    \E id \in SessionIds :
        /\ turnOnFlow.pc = "login"
        /\ providerRegistered
        /\ Commit([setActiveAccountSync([Cur EXCEPT !.sessions = @ \cup {id}], id)
                   EXCEPT !.turnOnFlow.pc = "token", !.turnOnFlow.account = id])

\* signIn, lines 819-822: login rejected.
LoginRejected ==
    /\ turnOnFlow.pc = "login"
    /\ Commit(turnOnRejected(
           [Call(Cur, "notificationService", "error", "loginFailed")
            EXCEPT !.turnOnFlow.signIn = "failed"], "login error"))

\* signIn's setActiveAccount ends, and doTurnOn goes on at line 687.
SignInTokenResolved ==
    /\ turnOnFlow.pc = "token"
    /\ Commit(handleFirstTimeSync(
           [tokenResolved(Cur, turnOnFlow.account) EXCEPT !.turnOnFlow.signIn = "ok"]))

SignInTokenRejected ==
    /\ turnOnFlow.pc = "token"
    /\ Commit(handleFirstTimeSync(
           [tokenRejected(Cur) EXCEPT !.turnOnFlow.signIn = "ok"]))

\* handleFirstTimeSync, lines 750-766.
FirstTimeChecked ==
    \E isFirstSyncWithMerge \in BOOLEAN :
        /\ turnOnFlow.pc = "firstTimeCheck"
        /\ IF ~isFirstSyncWithMerge
           THEN Commit(turnOnFinish([Cur EXCEPT !.turnOnFlow.firstTime = "notFirst"]))
           ELSE Commit([Call(Cur, "dialogService", "show", "firs time sync")
                        EXCEPT !.turnOnFlow.pc = "firstTimeDialog"])

\* isFirstTimeSyncWithMerge rejected.
FirstTimeCheckRejected ==
    /\ turnOnFlow.pc = "firstTimeCheck"
    /\ Commit(turnOnRejected(Cur, "service error"))

\* handleFirstTimeSync, lines 767-778.
FirstTimeDialogAnswered ==
    \E choice \in {0, 1, 2} :
        /\ turnOnFlow.pc = "firstTimeDialog"
        /\ IF choice = 0
           THEN Commit(turnOnFinish([Cur EXCEPT !.turnOnFlow.firstTime = "merge"]))
           ELSE IF choice = 1
           THEN Commit(turnOnRejected([Cur EXCEPT !.turnOnFlow.firstTime = "cancel"],
                                      "canceled"))
           ELSE Commit([Call(Cur, "userDataSyncService", "pull", "")
                        EXCEPT !.turnOnFlow.pc = "pull",
                               !.turnOnFlow.firstTime = "replace"])

PullResolved ==
    /\ turnOnFlow.pc = "pull"
    /\ Commit(turnOnFinish(Cur))

PullRejected ==
    /\ turnOnFlow.pc = "pull"
    /\ Commit(turnOnRejected(Cur, "service error"))

\* ------------------------------------------------------------ notebook
\* os.path.sep, where it is "/".
sep == "/"

\* str[i:] and str[:i] of Python, with i counted from 0.
SliceFrom(str, i) == SubSeq(str, i + 1, Len(str))
SliceTo(str, i) == SubSeq(str, 1, i)

\* str.rindex(ch) + 1: the last position of ch in str, counted from 1; 0
\* where Python raises ValueError.
rindex(str, ch) ==
    LET found == {i \in 1..Len(str) : SubSeq(str, i, i) = ch}
    IN  IF found = {} THEN 0 ELSE CHOOSE i \in found : \A j \in found : j <= i

\* The characters \s matches.
Whitespace == {" ", "\t", "\n", "\r"}

\* str.rstrip()
RECURSIVE rstrip(_)
rstrip(str) ==
    IF Len(str) > 0 /\ SubSeq(str, Len(str), Len(str)) \in Whitespace
    THEN rstrip(SubSeq(str, 1, Len(str) - 1))
    ELSE str

\* str.lower()
RECURSIVE lower(_)
lower(str) ==
    IF Len(str) = 0 THEN ""
    ELSE LET c == SubSeq(str, 1, 1)
             upper == {i \in 1..26 : SubSeq("ABCDEFGHIJKLMNOPQRSTUVWXYZ", i, i) = c}
         IN  (IF upper = {} THEN c
              ELSE LET i == CHOOSE i \in upper : TRUE
                   IN  SubSeq("abcdefghijklmnopqrstuvwxyz", i, i))
             \o lower(SubSeq(str, 2, Len(str)))

\* The first position (from 1) of sub in str, 0 if there is none: str.find(sub) + 1.
find(str, sub) ==
    LET at == {i \in 1..(Len(str) - Len(sub) + 1) : SubSeq(str, i, i + Len(sub) - 1) = sub}
    IN  IF at = {} THEN 0 ELSE CHOOSE i \in at : \A j \in at : i <= j

\* `sub in str` of Python, on strings.
contains(str, sub) == find(str, sub) # 0

\* str.replace(old, new), old not empty.
RECURSIVE replace(_, _, _)
replace(str, old, new) ==
    LET i == find(str, old)
    IN  IF i = 0 THEN str
        ELSE SubSeq(str, 1, i - 1) \o new
                 \o replace(SubSeq(str, i + Len(old), Len(str)), old, new)

\* The lines of a text: str.split('\n').
RECURSIVE splitlines(_)
splitlines(str) ==
    LET i == find(str, "\n")
    IN  IF i = 0 THEN <<str>>
        ELSE <<SubSeq(str, 1, i - 1)>> \o splitlines(SubSeq(str, i + 1, Len(str)))

\* The character classes of the regular expressions of lines 112-114 and
\* 161: [a-zA-Z0-9\\.\s\-\/] and, for headers, [a-zA-Z0-9\\.\s-].
UrlChars ==
    {SubSeq("abcdefghijklmnopqrstuvwxyzABCDEFGHIJKLMNOPQRSTUVWXYZ0123456789\\.-/",
            i, i) : i \in 1..66} \cup Whitespace
HeaderChars == UrlChars \ {"/"}

\* A match of  <prefix>[<chars>]+$  within one line: the line from the
\* first place on where the prefix is followed, up to the line's end, by one
\* or more of the characters; "" when the line has no match.
match(prefix, chars, line) ==
    LET starts ==
            {p \in 1..(Len(line) - Len(prefix)) :
                /\ SubSeq(line, p, p + Len(prefix) - 1) = prefix
                /\ \A i \in (p + Len(prefix))..Len(line) : SubSeq(line, i, i) \in chars}
    IN  IF starts = {} THEN ""
        ELSE SubSeq(line, CHOOSE p \in starts : \A q \in starts : p <= q, Len(line))

\* re.findall(r'<prefix>[<chars>]+$', result, re.MULTILINE), line by line.
RECURSIVE findall(_, _, _)
findall(prefix, chars, lines) ==
    IF Len(lines) = 0 THEN <<>>
    ELSE LET found == match(prefix, chars, Head(lines))
         IN  (IF found = "" THEN <<>> ELSE <<found>>)
                 \o findall(prefix, chars, Tail(lines))

\* The regular expression of line 112, line by line: a url entry that
\* starts its line, follows a line of white space only and is followed by a
\* line break.
findFirstLevelUrls(lines) ==
    LET at == {k \in 2..(Len(lines) - 1) :
                  /\ Len(lines[k - 1]) > 0
                  /\ \A i \in 1..Len(lines[k - 1]) :
                         SubSeq(lines[k - 1], i, i) \in Whitespace
                  /\ Len(lines[k]) > 0
                  /\ match("- url: ", UrlChars, lines[k]) = lines[k]}
        RECURSIVE collect(_)
        collect(k) ==
            IF k > Len(lines) THEN <<>>
            ELSE (IF k \in at THEN <<lines[k]>> ELSE <<>>) \o collect(k + 1)
    IN  collect(1)

\* The first index (from 1) of a value in a list that holds it: list.index.
index(list, value) ==
    CHOOSE i \in DOMAIN list :
        list[i] = value /\ \A j \in DOMAIN list : list[j] = value => i <= j

\* del list[i], with i counted from 1.
del(list, i) == SubSeq(list, 1, i - 1) \o SubSeq(list, i + 1, Len(list))

\* The cell's locals while it rewrites the toc; `raised` names the
\* exception a statement raised, "" while none has.
Raise(st, exception) == [st EXCEPT !.raised = exception]

\* Lines 118-128: the single first-level url.
firstLevelUrl(st, url, headers) ==
    IF rindex(url, sep) = 0 THEN Raise(st, "ValueError")
    ELSE LET title == rstrip(SliceFrom(url, rindex(url, sep)))
         IN  IF Len(headers) = 0
             THEN LET markdownUrl == st.urls[Len(st.urls)]
                  IN  IF rindex(markdownUrl, sep) = 0 THEN Raise(st, "ValueError")
                      ELSE LET mdTitle == rstrip(SliceFrom(markdownUrl,
                                                           rindex(markdownUrl, sep)))
                               replacedString ==
                                   "\n- title: " \o mdTitle \o "\n  url: /" \o mdTitle
                                       \o "\n  not_numbered: true\n  expand_sections: true\n  sections:  "
                                       \o url
                           IN  [st EXCEPT !.result =
                                   replace(replace(@, markdownUrl, ""), url, replacedString)]
             ELSE LET replacedString ==
                          "\n- title: " \o title \o "\n  url: /" \o title
                              \o "\n  not_numbered: true\n"
                  IN  [st EXCEPT !.result = replace(@, url, replacedString)]

\* Lines 130-139: the loop over the headers.
RECURSIVE headersLoop(_, _)
headersLoop(st, headers) ==
    IF Len(headers) = 0 \/ st.raised # "" THEN st
    ELSE LET header == Head(headers)
             title == rstrip(SliceFrom(header, 10))
             st1 == [st EXCEPT !.contentFolders = Append(@, lower(title))]
             filtered == SelectSeq(st.urls,
                             LAMBDA x : contains(x, sep \o lower(title) \o sep))
         IN  IF Len(filtered) = 0 THEN Raise(st1, "IndexError")
             ELSE LET i == index(st.urls, filtered[Len(filtered)])
                      urlValue == rstrip(SliceFrom(st.urls[i], rindex(st.urls[i], sep)))
                      replacedString ==
                          "\n- title: " \o title \o "\n  url: /" \o lower(title) \o "/"
                              \o urlValue
                              \o "\n  not_numbered: true\n  expand_sections: true\n  sections:  "
                  IN  headersLoop(
                          [st1 EXCEPT !.result = replace(replace(@, header, replacedString),
                                                         st.urls[i], ""),
                                      !.urls = del(@, i)],
                          Tail(headers))

\* folders[len(folders)-2] of url[7:].split(os.path.sep), for a url with a
\* separator: what stands between its last two separators.
parentFolderOf(url) ==
    LET path == SliceFrom(url, 7)
        before == SliceTo(path, rindex(path, sep) - 1)
    IN  SliceFrom(before, rindex(before, sep))

\* Lines 141-150: the loop over the urls left.
RECURSIVE urlsLoop(_, _)
urlsLoop(st, urls) ==
    IF Len(urls) = 0 \/ st.raised # "" THEN st
    ELSE LET url == Head(urls)
         IN  IF rindex(url, sep) = 0 THEN Raise(st, "ValueError")
             ELSE LET title == rstrip(SliceFrom(url, rindex(url, sep)))
                      urlValue ==
                          IF /\ Len(st.contentFolders) > 0
                             /\ \E k \in DOMAIN st.contentFolders :
                                    st.contentFolders[k] = parentFolderOf(url)
                          THEN st.contentFolders[index(st.contentFolders,
                                                       parentFolderOf(url))]
                                   \o "/" \o title
                          ELSE title
                      replacedString ==
                          "\n  - title: " \o title \o "\n    url: /" \o urlValue
                  IN  urlsLoop([st EXCEPT !.result = replace(@, url, replacedString)],
                               Tail(urls))

\* Lines 108-155: the toc is read and searched, and its entries rewritten;
\* the result is the cell's locals, with the exception raised if any.
updateToc(result) ==
    LET lines == splitlines(result)
        firstLevelUrls == findFirstLevelUrls(lines)
        urls == findall("- url: ", UrlChars, lines)
        headers == findall("- header: ", HeaderChars, lines)
        st == [result |-> result, urls |-> urls, contentFolders |-> <<>>,
               raised |-> ""]
    IN  IF Len(firstLevelUrls) # 0 \/ Len(headers) # 0 \/ Len(urls) # 0
        THEN LET st1 == IF Len(firstLevelUrls) = 1
                        THEN firstLevelUrl(st, firstLevelUrls[1], headers)
                        ELSE st
                 st2 == headersLoop(st1, headers)
             IN  urlsLoop(st2, st2.urls)
        ELSE Raise(st, "SystemExit")

\* Line 174 catching every exception, SystemExit too.
ended_catchesAll(exception) == "printed"

\* How the cell ends on an exception: `except Exception` (line 174) prints
\* it and the cell ends; SystemExit is no Exception and ends the cell as
\* its error.
ended(exception) == IF exception = "SystemExit" THEN "SystemExit" ELSE "printed"

\* Lines 104-155, the toc: rewritten and written back (lines 151-153), or
\* an exception.
UpdateToc ==
    /\ nbPc = "created"
    /\ LET st == updateToc(tocFile)
       IN  IF st.raised = ""
           THEN /\ nbPc' = "tocWritten"
                /\ tocFile' = st.result
                /\ fileOps' = fileOps \cup {<<"write", "_data/toc.yml">>}
           ELSE /\ nbPc' = ended(st.raised)
                /\ UNCHANGED <<tocFile, fileOps>>
    /\ UNCHANGED <<book_name, configFile, bookRoot, syncVars, timelineVars>>

\* os.path.splitext(os.path.basename(path))[0]
bookTitle(path) ==
    LET basename == SliceFrom(path, rindex(path, sep))
        dot == rindex(basename, ".")
    IN  IF dot <= 1 THEN basename ELSE SliceTo(basename, dot - 1)

\* Lines 157-166, the book's title in the config file.
UpdateConfig ==
    /\ nbPc = "tocWritten"
    /\ LET found == findall("title: ", UrlChars, splitlines(configFile))
       IN  IF Len(found) = 0
           THEN \* re.search(...) is None: AttributeError
                /\ nbPc' = ended("AttributeError")
                /\ UNCHANGED <<configFile, fileOps>>
           ELSE LET titleLine == found[1]
                    title == "title: " \o bookTitle(book_name)
                IN  /\ nbPc' = "configWritten"
                    /\ configFile' = replace(configFile, titleLine, title)
                    /\ fileOps' = fileOps \cup {<<"write", "_config.yml">>}
    /\ UNCHANGED <<book_name, tocFile, bookRoot, syncVars, timelineVars>>

\* Lines 168-173, the whole loop over os.scandir(book_name): an entry of the
\* root is a name with whether it is a file (else it is a directory).  Line
\* 170 tests the name against ('_config.yml'), a string: `not in` is the
\* substring test.
Cleanup ==
    /\ nbPc = "configWritten"
    /\ LET removed == {path \in bookRoot :
                          path.is_file /\ ~contains("_config.yml", path.name)}
           removedTrees == {path \in bookRoot :
                               ~path.is_file /\ path.name \notin {"_data", "content"}}
       IN  /\ bookRoot' = (bookRoot \ removed) \ removedTrees
           /\ fileOps' = fileOps \cup {<<"remove", path.name>> : path \in removed}
                                 \cup {<<"rmtree", path.name>> : path \in removedTrees}
    /\ nbPc' = "done"
    /\ UNCHANGED <<book_name, tocFile, configFile, syncVars, timelineVars>>

\* ------------------------------------------------------- specifications

\* The constructor, lines 150-180, on what the services hold at start-up; it
\* leaves initializeActiveAccount at its await.
Constructed(status, isEnabled, registered, held, asked, preference, order) ==
    LET s0 == [svcStatus |-> status, svcConflicts |-> <<>>, enabled |-> isEnabled,
               resourceEnabled |-> [r \in SyncResource |-> TRUE],
               syncStatusContext |-> Uninitialized,
               syncEnablementContext |-> FALSE,
               authenticationState |-> Initializing,
               conflictsSources |-> ConflictsSourcesDefault,
               activity |-> <<>>, badgeDisposable |-> FALSE,
               debounceTimer |-> -1,
               conflictsDisposables |-> <<>>,
               conflictNotifications |-> [r \in SyncResource |-> 0],
               signInNotification |-> FALSE,
               editors |-> {},
               activeAccount |-> NoAccount, token |-> NoToken,
               providerRegistered |-> registered, sessions |-> held,
               tokenFailedFlow |-> FALSE,
               pendingTokens |-> [id \in SessionIds |-> 0],
               donotAskPreviewConfirmation |-> asked,
               accountPreference |-> preference,
               turnOnFlow |-> IdleTurnOn, turnOffFlow |-> IdleTurnOff,
               accountFlow |-> IdleAccount, conflictsFlow |-> IdleConflicts,
               synchronisers |-> order,
               invalidContentErrorDisposables |-> {},
               activeEditor |-> NoEditor, svcErrors |-> <<>>,
               calls |-> <<>>]
        s1 == onDidChangeSyncStatus(s0, s0.svcStatus)
        s2 == onDidChangeConflicts(s1)
        s3 == onDidChangeEnablement(s2, s2.enabled)
    IN  [initializeActiveAccount(s3, "constructor") EXCEPT !.calls = <<>>]

\* The contribution's variables hold state s.
StartSync(s) ==
    /\ svcStatus = s.svcStatus
    /\ svcConflicts = s.svcConflicts
    /\ enabled = s.enabled
    /\ resourceEnabled = s.resourceEnabled
    /\ syncStatusContext = s.syncStatusContext
    /\ syncEnablementContext = s.syncEnablementContext
    /\ authenticationState = s.authenticationState
    /\ conflictsSources = s.conflictsSources
    /\ activity = s.activity
    /\ badgeDisposable = s.badgeDisposable
    /\ debounceTimer = s.debounceTimer
    /\ conflictsDisposables = s.conflictsDisposables
    /\ conflictNotifications = s.conflictNotifications
    /\ signInNotification = s.signInNotification
    /\ editors = s.editors
    /\ activeAccount = s.activeAccount
    /\ token = s.token
    /\ providerRegistered = s.providerRegistered
    /\ sessions = s.sessions
    /\ tokenFailedFlow = s.tokenFailedFlow
    /\ pendingTokens = s.pendingTokens
    /\ donotAskPreviewConfirmation = s.donotAskPreviewConfirmation
    /\ accountPreference = s.accountPreference
    /\ turnOnFlow = s.turnOnFlow
    /\ turnOffFlow = s.turnOffFlow
    /\ accountFlow = s.accountFlow
    /\ conflictsFlow = s.conflictsFlow
    /\ synchronisers = s.synchronisers
    /\ invalidContentErrorDisposables = s.invalidContentErrorDisposables
    /\ activeEditor = s.activeEditor
    /\ svcErrors = s.svcErrors
    /\ calls = s.calls

\* The notebook is not open.
NotebookClosed ==
    /\ nbPc = "closed"
    /\ book_name = ""
    /\ tocFile = ""
    /\ configFile = ""
    /\ bookRoot = {}
    /\ fileOps = {}

\* part_001 has been loaded by a product of the given quality: the setting
\* is registered with its default (line 49), and the user has not set it.
TimelineRegistered(quality) ==
    /\ productQuality = quality
    /\ showViewDefault = (quality # "stable")
    /\ showViewSetting = <<>>

\* The contribution is in state s, in a stable product with the notebook
\* closed.
Start(s) ==
    /\ StartSync(s)
    /\ NotebookClosed
    /\ TimelineRegistered("stable")

\* The contribution is constructed while the service, without conflicts yet,
\* holds any other status and any enablement and keeps its synchronisers in
\* any order, and the registered provider holds no session or one.
Init ==
    \E status \in SyncStatus \ {HasConflicts}, isEnabled \in BOOLEAN,
       held \in {{}, {"p/s1"}}, order \in SynchroniserOrders :
        Start(Constructed(status, isEnabled, TRUE, held, TRUE, "", order))

\* The contribution and the sync service: status, conflicts, enablement and
\* the account they are shown for.
Next ==
    \/ ConflictsChanged
    \/ EnablementChanged
    \/ InitSessionsResolved
    \/ InitTokenResolved
    \/ InitTokenRejected
    \/ ProviderUnregistered

Spec == Init /\ [][Next]_vars

\* The status debounce alone, with the scheduling the event loop gives it:
\* time passes while the timer runs, and an expired timer's listener runs.
InitDebounce ==
    \E isEnabled \in BOOLEAN :
        Start(Constructed(Uninitialized, isEnabled, FALSE, {}, TRUE, "",
                          <<Settings, Keybindings, Snippets>>))

NextDebounce ==
    \/ StatusChanged
    \/ Tick
    \/ DebounceFire
    \/ EnablementChanged
    \/ TokenFailed

DebounceSpec ==
    /\ InitDebounce
    /\ [][NextDebounce]_vars
    /\ WF_vars(Tick)
    /\ WF_vars(DebounceFire)

\* Auto-sync errors, with what they disable being re-enabled between them.
InitErrors ==
    \E status \in SyncStatus \ {HasConflicts}, isEnabled \in BOOLEAN :
        Start(Constructed(status, isEnabled, TRUE, {}, TRUE, "",
                          <<Settings, Keybindings, Snippets>>))

NextErrors ==
    \/ AutoSyncError
    \/ EnablementChanged
    \/ ConfigureSync
    \/ InitSessionsResolved
    \/ ProviderUnregistered

ErrorSpec == InitErrors /\ [][NextErrors]_vars

\* Conflicts, their notifications, preview editors and the notifications'
\* actions.
InitConflicts ==
    Start(Constructed(Idle, TRUE, FALSE, {}, TRUE, "",
                      <<Settings, Keybindings, Snippets>>))

NextConflicts ==
    \/ ConflictsChanged
    \/ ShowConflictsActionRun
    \/ ShowConflictsCommand
    \/ EditorOpened
    \/ EditorClosed

ConflictsSpec == InitConflicts /\ [][NextConflicts]_vars

\* Conflicts and the accept actions of their notifications.
NextAccept ==
    \/ ConflictsChanged
    \/ AcceptActionRun
    \/ AcceptModelResolved
    \/ AcceptModelRejected
    \/ AcceptConflictResolved
    \/ AcceptConflictRejected

AcceptSpec == InitConflicts /\ [][NextAccept]_vars

\* Sync errors and their invalid-content notifications, while the user
\* moves between editors.
NextInvalidContent ==
    \/ SyncErrors
    \/ ActiveEditorChanged
    \/ OpenSyncFileActionRun

InvalidContentSpec == InitConflicts /\ [][NextInvalidContent]_vars

\* The workbench with both contributions loaded: the sync contribution's
\* context keys follow the service and the account, and the user changes
\* the timeline's setting, in a product of any quality.
InitWorkbench ==
    \E status \in SyncStatus \ {HasConflicts}, isEnabled \in BOOLEAN,
       held \in {{}, {"p/s1"}}, quality \in ProductQualities :
        /\ StartSync(Constructed(status, isEnabled, TRUE, held, TRUE, "",
                                 <<Settings, Keybindings, Snippets>>))
        /\ NotebookClosed
        /\ TimelineRegistered(quality)

NextWorkbench ==
    \/ StatusChanged
    \/ Tick
    \/ DebounceFire
    \/ EnablementChanged
    \/ InitSessionsResolved
    \/ InitTokenResolved
    \/ InitTokenRejected
    \/ ProviderUnregistered
    \/ ShowViewSettingChanged

WorkbenchSpec == InitWorkbench /\ [][NextWorkbench]_vars

\* The account: the provider registered or not at construction, with any
\* sessions and any stored preference (none, a session's id, an id no session
\* has), then the provider coming and going, tokens failing, the pickers
\* answered and the access tokens arriving in any order.
AccountPreferences == {"", "p/s1", "p/s9"}

InitAccount ==
    \E registered \in BOOLEAN, held \in SUBSET SessionIds,
       preference \in AccountPreferences, isEnabled \in BOOLEAN :
        /\ ~registered => held = {}
        /\ Start(Constructed(Idle, isEnabled, registered, held, TRUE, preference,
                             <<Settings, Keybindings, Snippets>>))

NextAccount ==
    \/ InitSessionsResolved
    \/ InitTokenResolved
    \/ InitTokenRejected
    \/ AccountPicked
    \/ AccountPickerHidden
    \/ PendingTokenResolved
    \/ PendingTokenRejected
    \/ ProviderRegistered
    \/ ProviderUnregistered
    \/ TokenFailed
    \/ TokenFailedSessionsResolved

AccountSpec == InitAccount /\ [][NextAccount]_vars

\* The notebook's third cell, run after `jupyter-book create` has made the
\* book: the lines the toc may hold (a first-level entry after a line of
\* white space, nested entries, a header, names with an underscore, a url
\* without a separator), the book's path, and what the book's root holds
\* besides _config.yml, _data and content.
TocLineValues ==
    {" ", "- url: /intro", "- url: /Folder/nb", "- url: /folder/nb",
     "- header: Folder", "- url: /my_nb", "- header: my_folder", "- url: intro"}

JoinLines(lines) ==
    LET RECURSIVE joined(_)
        joined(k) == IF k > Len(lines) THEN "" ELSE lines[k] \o "\n" \o joined(k + 1)
    IN  joined(1)

TocFiles ==
    {JoinLines(lines) :
        lines \in UNION {[1..n -> TocLineValues] : n \in 1..MaxTocLines}}

BookNames == {"/books/Book1", "/books/my.book"}

BookRootRequired ==
    {[name |-> "_config.yml", is_file |-> TRUE],
     [name |-> "_data", is_file |-> FALSE],
     [name |-> "content", is_file |-> FALSE]}

BookRootOthers ==
    {[name |-> "Gemfile", is_file |-> TRUE],
     [name |-> "config.yml", is_file |-> TRUE],
     [name |-> "scripts", is_file |-> FALSE]}

InitNotebook ==
    /\ StartSync(Constructed(Idle, FALSE, TRUE, {}, TRUE, "",
                             <<Settings, Keybindings, Snippets>>))
    /\ TimelineRegistered("stable")
    /\ nbPc = "created"
    /\ book_name \in BookNames
    /\ tocFile \in TocFiles
    /\ configFile = "title: My Jupyter Book\nauthor: The Jupyter Book community\n"
    /\ bookRoot \in {BookRootRequired \cup others : others \in SUBSET BookRootOthers}
    /\ fileOps = {}

NextNotebook ==
    \/ UpdateToc
    \/ UpdateConfig
    \/ Cleanup

NotebookSpec == InitNotebook /\ [][NextNotebook]_vars

\* Turning sync on from the command, for every answer of the user and of
\* the services.
InitTurnOn ==
    \E isEnabled \in BOOLEAN, held \in {{}, {"p/s1"}}, asked \in BOOLEAN :
        Start(Constructed(Idle, isEnabled, TRUE, held, asked, "",
                          <<Settings, Keybindings, Snippets>>))

NextTurnOn ==
    \/ TurnOnCommand
    \/ PreviewDialogAnswered
    \/ TurnOnQuickPickAccepted
    \/ TurnOnQuickPickHidden
    \/ AccountPickAccepted
    \/ AccountPickHidden
    \/ LogoutResolved
    \/ LogoutRejected
    \/ LoginResolved
    \/ LoginRejected
    \/ SignInTokenResolved
    \/ SignInTokenRejected
    \/ FirstTimeChecked
    \/ FirstTimeCheckRejected
    \/ FirstTimeDialogAnswered
    \/ PullResolved
    \/ PullRejected
    \/ InitSessionsResolved
    \/ InitTokenResolved
    \/ InitTokenRejected
    \/ EnablementChanged

TurnOnSpec == InitTurnOn /\ [][NextTurnOn]_vars

\* Turning sync off, from the command and from a change of the provider's
\* sessions.
InitTurnOff ==
    \E isEnabled \in BOOLEAN, held \in SUBSET SessionIds :
        Start(Constructed(Idle, isEnabled, TRUE, held, TRUE, "",
                          <<Settings, Keybindings, Snippets>>))

NextTurnOff ==
    \/ TurnOffCommand
    \/ TurnOffDialogAnswered
    \/ ResetResolved
    \/ ResetRejected
    \/ SessionsChanged
    \/ SessionRefreshed
    \/ InitSessionsResolved
    \/ InitTokenResolved
    \/ InitTokenRejected
    \/ AccountPicked
    \/ AccountPickerHidden
    \/ RemovedSessionsResolved
    \/ AddedSessionsResolved
    \/ ChangedSessionsResolved
    \/ ConfirmDialogAnswered
    \/ PendingTokenResolved
    \/ PendingTokenRejected

TurnOffSpec == InitTurnOff /\ [][NextTurnOff]_vars

\* ----------------------------------------------------------- properties

\* The number of conflicts the service reports, counted one by one.
ConflictsTotal ==
    Cardinality({ik \in (DOMAIN svcConflicts) \X (1..(MaxConflicts + 1)) :
                    ik[2] \in DOMAIN svcConflicts[ik[1]].conflicts})

\* The badge the state calls for: none, or one.
BadgeDue ==
    IF svcStatus # Uninitialized /\ enabled /\ authenticationState = SignedOut
    THEN <<[number |-> 1, label |-> "Sign in to Sync"]>>
    ELSE IF svcConflicts # <<>>
    THEN <<[number |-> ConflictsTotal, label |-> "Preferences Sync: Conflicts Detected"]>>
    ELSE <<>>

\* The steps of Spec in which updateBadge runs on the state the step leaves:
\* a conflicts event (ConflictsChanged), an enablement event
\* (EnablementChanged), and the end of the awaited setActiveAccount
\* (InitTokenResolved, InitTokenRejected).
EndsWithUpdateBadge ==
    \/ svcConflicts' # svcConflicts
    \/ enabled' # enabled
    \/ accountFlow.pc = "initToken" /\ accountFlow'.pc # "initToken"

\* C1: after updateBadge has run, the global activity shows exactly the badge
\* the state calls for, and never more than one: the sign-in badge with count
\* 1 when the status is not Uninitialized, sync is enabled and the state is
\* SignedOut; else, with conflicts, the conflicts badge counting every
\* conflict of every resource; else none.
C1_BadgeAfterUpdateBadge ==
    [][EndsWithUpdateBadge => (activity' = BadgeDue' /\ Len(activity') <= 1)]_vars

\* The conflicts badge counts 3: one conflict of one resource and two of the
\* snippets.
C1_Witness ==
    /\ Len(svcConflicts) = 2
    /\ activity = <<[number |-> 3, label |-> "Preferences Sync: Conflicts Detected"]>>

\* The sources of the service's conflicts, comma-joined in service order.
SourcesJoined ==
    CASE Len(svcConflicts) = 0 -> ""
      [] Len(svcConflicts) = 1 -> svcConflicts[1].syncResource
      [] Len(svcConflicts) = 2 ->
            svcConflicts[1].syncResource \o "," \o svcConflicts[2].syncResource
      [] Len(svcConflicts) = 3 ->
            svcConflicts[1].syncResource \o "," \o svcConflicts[2].syncResource
                \o "," \o svcConflicts[3].syncResource

\* C2: the context keys mirror the service: the enablement key is the
\* enabled value the last enablement event reported, and the conflictsSources
\* key is the comma-joined list of the resources in conflict, in service
\* order, or the empty default when there are none.
C2_ContextKeysMirrorService ==
    /\ syncEnablementContext = enabled
    /\ conflictsSources = SourcesJoined

\* Keybindings before settings, as the service lists them, after an
\* enablement event turned sync on.
C2_Witness ==
    /\ conflictsSources = "keybindings,settings"
    /\ syncEnablementContext
    /\ signInNotification

\* C3: status changes are debounced: once the service's status stops
\* changing, the debounced handler runs and the sync-status context key is
\* the status the service holds, from then on.
C3_StatusEventuallyMirrored ==
    <>[][~StatusChanged]_vars => <>[](syncStatusContext = svcStatus)

\* The debounced handler has run after a burst: the key left its initial
\* Uninitialized for the status the service holds.
C3_Witness ==
    /\ debounceTimer = -1
    /\ svcStatus = HasConflicts
    /\ syncStatusContext = HasConflicts

\* A call of `op` on `service` with `arg` is among the calls of `made`.
Made(made, service, op, arg) ==
    \E i \in DOMAIN made :
        made[i].service = service /\ made[i].op = op /\ made[i].arg = arg

\* What doTurnOn does last, as seen in the calls of a step.
EnablesSync == Made(calls', "userDataSyncEnablementService", "setEnablement", TRUE)
ShowsTurnedOn == Made(calls', "notificationService", "info", "sync turned on")
StoresFlag ==
    Made(calls', "storageService", "store", "sync.donotAskPreviewConfirmation")

\* C4: doTurnOn enables sync, shows "Sync will happen automatically from now
\* on." and stores the sync.donotAskPreviewConfirmation flag only in the step
\* that completes the first-time-sync handling, which a SignedOut state
\* enters only through a sign-in that succeeded; when the sign-in fails or
\* the first-time-sync dialog is cancelled, none of the three happens and
\* global enablement is left as it was.
C4_TurnOnEffectsLast ==
    [][/\ (EnablesSync \/ ShowsTurnedOn \/ StoresFlag
            \/ donotAskPreviewConfirmation' # donotAskPreviewConfirmation) =>
            /\ turnOnFlow.pc \in {"firstTimeCheck", "firstTimeDialog", "pull"}
            /\ turnOnFlow'.pc = "done"
            /\ turnOnFlow'.signIn # "failed"
            /\ turnOnFlow'.firstTime \in {"notFirst", "merge", "replace"}
            /\ EnablesSync /\ ShowsTurnedOn /\ StoresFlag
            /\ enabled' /\ donotAskPreviewConfirmation'
       /\ (turnOnFlow'.pc = "firstTimeCheck" /\ turnOnFlow.pc # "firstTimeCheck") =>
            IF authenticationState = SignedOut
            THEN turnOnFlow.pc = "token" /\ turnOnFlow'.signIn = "ok"
            ELSE turnOnFlow'.signIn \in {"none", "ok"}
       /\ (turnOnFlow.pc \notin TurnOnEnded /\ turnOnFlow'.pc \in {"failed", "canceled"}) =>
            /\ ~EnablesSync /\ ~ShowsTurnedOn /\ ~StoresFlag
            /\ enabled' = enabled
            /\ donotAskPreviewConfirmation' = donotAskPreviewConfirmation
       /\ turnOnFlow'.signIn = "failed" => turnOnFlow'.pc = "failed"
      ]_vars

\* Sync was off and the state SignedOut; the sign-in succeeded, the local
\* data was replaced, and sync is on.
C4_Witness ==
    /\ turnOnFlow.pc = "done"
    /\ turnOnFlow.signIn = "ok"
    /\ turnOnFlow.firstTime = "replace"
    /\ enabled /\ syncEnablementContext
    /\ donotAskPreviewConfirmation
    /\ Made(calls, "notificationService", "info", "sync turned on")

\* The first-time-sync dialog and the pull, as seen in the calls of a step.
ShowsFirstTimeDialog == Made(calls', "dialogService", "show", "firs time sync")
CallsPull == Made(calls', "userDataSyncService", "pull", "")
ShowsTurnOnFailed == Made(calls', "notificationService", "error", "turn on failed")

\* C5: the first-time sync choice.  Not a first-time sync with merge: no
\* dialog, no pull, sync is enabled.  Merge: sync is enabled without a pull.
\* Replace Local: pull is called, and sync is enabled only once it has
\* resolved.  Cancel: turnOn is canceled, sync is not enabled, and the
\* turn-on command shows no "Error while starting Sync" notification.
C5_FirstTimeSyncChoice ==
    [][/\ ShowsFirstTimeDialog =>
            turnOnFlow.pc = "firstTimeCheck" /\ turnOnFlow'.pc = "firstTimeDialog"
       /\ CallsPull =>
            /\ turnOnFlow.pc = "firstTimeDialog"
            /\ turnOnFlow'.pc = "pull"
            /\ turnOnFlow'.firstTime = "replace"
       /\ (turnOnFlow'.firstTime # turnOnFlow.firstTime) =>
            CASE turnOnFlow'.firstTime = "notFirst" ->
                    /\ turnOnFlow.pc = "firstTimeCheck" /\ turnOnFlow'.pc = "done"
                    /\ ~ShowsFirstTimeDialog /\ ~CallsPull
                    /\ EnablesSync /\ enabled'
              [] turnOnFlow'.firstTime = "merge" ->
                    /\ turnOnFlow.pc = "firstTimeDialog" /\ turnOnFlow'.pc = "done"
                    /\ ~CallsPull
                    /\ EnablesSync /\ enabled'
              [] turnOnFlow'.firstTime = "replace" ->
                    /\ turnOnFlow.pc = "firstTimeDialog" /\ turnOnFlow'.pc = "pull"
                    /\ CallsPull
                    /\ ~EnablesSync /\ enabled' = enabled
              [] turnOnFlow'.firstTime = "cancel" ->
                    /\ turnOnFlow.pc = "firstTimeDialog" /\ turnOnFlow'.pc = "canceled"
                    /\ ~CallsPull
                    /\ ~EnablesSync /\ enabled' = enabled
                    /\ turnOnFlow'.caller = "command" => ~ShowsTurnOnFailed
              [] OTHER -> turnOnFlow'.firstTime = "none" /\ turnOnFlow.pc \in TurnOnEnded
       /\ (turnOnFlow.pc = "pull" /\ turnOnFlow'.pc # "pull") =>
            IF turnOnFlow'.pc = "done"
            THEN EnablesSync /\ enabled'
            ELSE /\ turnOnFlow'.pc = "failed"
                 /\ ~EnablesSync /\ enabled' = enabled
                 /\ turnOnFlow'.caller = "command" => ShowsTurnOnFailed
      ]_vars

\* The command's turnOn was cancelled in the first-time-sync dialog: sync is
\* off and the step showed nothing.
C5_Witness ==
    /\ turnOnFlow.pc = "canceled"
    /\ turnOnFlow.firstTime = "cancel"
    /\ turnOnFlow.caller = "command"
    /\ ~enabled
    /\ calls = <<>>

\* The service's resets and the disabling of sync, as seen in the calls of
\* a step.
CallsReset == Made(calls', "userDataSyncService", "reset", "")
CallsResetLocal == Made(calls', "userDataSyncService", "resetLocal", "")
DisablesSync == Made(calls', "userDataSyncEnablementService", "setEnablement", FALSE)

\* C6: turning off sync.  Not confirmed: nothing is reset, enablement is
\* unchanged.  Confirmed with the checkbox checked: reset() is called;
\* confirmed without it: resetLocal().  Enablement is set to false only in
\* the step in which that reset has resolved, and is unchanged when it
\* rejects.
C6_TurnOff ==
    [][/\ (turnOffFlow.pc = "dialog" /\ turnOffFlow'.pc # "dialog") =>
            /\ enabled' = enabled /\ ~DisablesSync
            /\ IF ~turnOffFlow'.confirmed
               THEN ~CallsReset /\ ~CallsResetLocal /\ turnOffFlow'.pc = "returned"
               ELSE IF turnOffFlow'.checkboxChecked
               THEN CallsReset /\ ~CallsResetLocal /\ turnOffFlow'.pc = "reset"
               ELSE CallsResetLocal /\ ~CallsReset /\ turnOffFlow'.pc = "reset"
       /\ (CallsReset \/ CallsResetLocal) => turnOffFlow.pc = "dialog"
       /\ (DisablesSync \/ enabled' # enabled) =>
            /\ turnOffFlow.pc = "reset" /\ turnOffFlow'.pc = "done"
            /\ turnOffFlow.confirmed
            /\ DisablesSync /\ ~enabled'
       /\ (turnOffFlow.pc = "reset" /\ turnOffFlow'.pc # "reset") =>
            IF turnOffFlow'.pc = "done"
            THEN DisablesSync /\ ~enabled' /\ ~syncEnablementContext'
            ELSE turnOffFlow'.pc = "failed" /\ ~DisablesSync /\ enabled' = enabled
      ]_vars

\* The command turned sync off everywhere: reset() resolved and sync is off.
C6_Witness ==
    /\ turnOffFlow.pc = "done"
    /\ turnOffFlow.caller = "command"
    /\ turnOffFlow.confirmed /\ turnOffFlow.checkboxChecked
    /\ ~enabled
    /\ ~syncEnablementContext
    /\ Made(calls, "userDataSyncEnablementService", "setEnablement", FALSE)

\* C7: a sessions-change event removed the active account's session.  With
\* other sessions left the choose-account picker is shown; with none the
\* turn-off confirmation is offered, and when that turnOff is over the active
\* account is cleared (token unset, state SignedOut), confirmed or not, and
\* the handler ends without looking at the event's added and changed lists.
C7_RemovedActiveSession ==
    [][/\ (accountFlow.pc = "removedGetSessions"
            /\ accountFlow'.pc # "removedGetSessions") =>
            IF sessions # {}
            THEN /\ accountFlow'.pc = "removedPicker"
                 /\ Made(calls', "quickInputService", "createQuickPick",
                         "chooseAccountTitle")
            ELSE /\ accountFlow'.pc = "turnOff"
                 /\ turnOffFlow'.pc = "dialog"
                 /\ Made(calls', "dialogService", "confirm",
                         "turn off sync confirmation")
       /\ (accountFlow.pc = "turnOff" /\ accountFlow'.pc # "turnOff") =>
            /\ turnOffFlow'.pc \in TurnOffEnded
            /\ activeAccount' = NoAccount
            /\ token' = NoToken
            /\ authenticationState' = SignedOut
            /\ accountFlow'.pc \in AccountEnded
            /\ ~Made(calls', "authenticationService", "getSessions", "")
      ]_vars

\* Everything but the calls of the last step.
stateVars ==
    <<svcStatus, svcConflicts, enabled, resourceEnabled, syncStatusContext,
      syncEnablementContext, authenticationState, conflictsSources,
      activity, badgeDisposable, debounceTimer, conflictsDisposables,
      conflictNotifications, signInNotification, editors, activeAccount,
      token, providerRegistered, sessions, tokenFailedFlow, pendingTokens,
      donotAskPreviewConfirmation, accountPreference, turnOnFlow, turnOffFlow,
      accountFlow, conflictsFlow, synchronisers,
      invalidContentErrorDisposables, activeEditor, svcErrors>>

\* The one notification onAutoSyncError shows for a severity and a message.
Notified(severity, message, detail) ==
    <<[service |-> "notificationService", op |-> "notify",
       arg |-> <<severity, message, detail>>]>>

\* C8: auto-sync errors change enablement in exactly two cases.  TooLarge for
\* Settings or Keybindings disables that resource alone; Incompatible sets
\* global enablement to false.  TurnedOff and SessionExpired only show the
\* "Sync was turned off from another device." notification with its "Turn on
\* Sync" action; TooLarge for another resource and every other code change
\* nothing and show nothing.
C8_AutoSyncErrorFrame ==
    [][\A code \in UserDataSyncErrorCode, resource \in SyncResource :
          Commit(onAutoSyncError(Cur, [code |-> code, resource |-> resource])) =>
            CASE code = TooLarge /\ resource \in {Settings, Keybindings} ->
                    /\ resourceEnabled' = [r \in SyncResource |->
                                              r # resource /\ resourceEnabled[r]]
                    /\ enabled' = enabled
                    /\ syncEnablementContext' = syncEnablementContext
                    /\ calls' = Notified("Error", "too large",
                                         IF resource = Settings THEN "settings"
                                         ELSE "keyboard shortcuts")
              [] code = Incompatible ->
                    /\ enabled' = FALSE
                    /\ syncEnablementContext' = FALSE
                    /\ resourceEnabled' = resourceEnabled
                    /\ Made(calls', "notificationService", "notify",
                            <<"Error", "error incompatible", "">>)
              [] code \in {TurnedOff, SessionExpired} ->
                    /\ UNCHANGED stateVars
                    /\ calls' = Notified("Info", "turned off", "Turn on Sync")
              [] OTHER ->
                    /\ UNCHANGED stateVars
                    /\ calls' = <<>>
      ]_vars

\* The keybindings file was too large: keybindings sync is off, settings
\* sync and sync as a whole are still on.
C8_Witness ==
    /\ ~resourceEnabled[Keybindings]
    /\ resourceEnabled[Settings]
    /\ enabled
    /\ calls = Notified("Error", "too large", "keyboard shortcuts")

\* C9: a conflicts notification is shown only if not shown before: at most
\* one is registered per sync resource at any time, and one is shown for a
\* resource only when the resource is in conflict, has no registered
\* notification and has no conflicts preview editor open.
C9_OneConflictsNotification ==
    [][\A r \in SyncResource :
          /\ conflictNotifications'[r] <= 1
          /\ (r \in DOMAIN conflictsDisposables') = (conflictNotifications'[r] = 1)
          /\ conflictNotifications'[r] > conflictNotifications[r] =>
                /\ conflictNotifications[r] = 0
                /\ r \notin DOMAIN conflictsDisposables
                /\ ~ \E input \in editors : input[1] = "local" /\ input[2] = r
                /\ \E i \in DOMAIN svcConflicts' : svcConflicts'[i].syncResource = r
      ]_vars

\* The snippets are in conflict with a notification registered for them,
\* while the settings, in conflict too, have a preview open and none.
C9_Witness ==
    /\ conflictNotifications[Snippets] = 1
    /\ Snippets \in DOMAIN conflictsDisposables
    /\ conflictNotifications[Settings] = 0
    /\ \E i \in DOMAIN svcConflicts : svcConflicts[i].syncResource = Settings
    /\ <<"local", Settings, 1>> \in editors

\* What acceptConflict is to be called with for a conflict: the resource of
\* the side accepted and the text of its model, as it is.
AcceptedAsIs(action, conflict) ==
    LET resource == IF action = "acceptRemote" THEN conflict.remote ELSE conflict.local
    IN  [resource |-> resource,
         content |-> <<"text of", resource[1], resource[2], resource[3]>>]

\* C10: Accept Remote (resp. Accept Local) calls acceptConflict once per
\* conflict, in list order, with the conflict's remote (resp. local) resource
\* and the unmodified text of its model; at the first failure the remaining
\* conflicts are left alone and the error is shown as an error notification.
C10_AcceptInOrderAsIs ==
    [][/\ conflictsFlow'.pc \in {"resolve", "accept"} =>
            /\ conflictsFlow'.action \in {"acceptRemote", "acceptLocal"}
            /\ Len(conflictsFlow'.accepted) =
                   IF conflictsFlow'.pc = "resolve"
                   THEN conflictsFlow'.i - 1 ELSE conflictsFlow'.i
            /\ \A k \in DOMAIN conflictsFlow'.accepted :
                   conflictsFlow'.accepted[k] =
                       AcceptedAsIs(conflictsFlow'.action, conflictsFlow'.conflicts[k])
       /\ (\E i \in DOMAIN calls' : calls'[i].op = "acceptConflict") =>
            /\ conflictsFlow.pc = "resolve" /\ conflictsFlow'.pc = "accept"
            /\ conflictsFlow'.i = conflictsFlow.i
            /\ calls' = <<[service |-> "userDataSyncService", op |-> "acceptConflict",
                           arg |-> AcceptedAsIs(conflictsFlow.action,
                                                conflictsFlow.conflicts[conflictsFlow.i])]>>
       /\ (conflictsFlow.pc \in {"resolve", "accept"} /\ conflictsFlow'.pc = "done") =>
            /\ conflictsFlow'.accepted = conflictsFlow.accepted
            /\ IF conflictsFlow'.error
               THEN calls' = <<[service |-> "notificationService", op |-> "error",
                                arg |-> "e"]>>
               ELSE /\ conflictsFlow.pc = "accept"
                    /\ Len(conflictsFlow'.accepted) = Len(conflictsFlow.conflicts)
                    /\ calls' = <<>>
      ]_vars

\* Accept Remote of the snippets' notification failed at the second of two
\* conflicts: the first was accepted, the error is shown.
C10_Witness ==
    /\ conflictsFlow.pc = "done"
    /\ conflictsFlow.action = "acceptRemote"
    /\ conflictsFlow.error
    /\ conflictsFlow.accepted =
          <<[resource |-> <<"remote", Snippets, 1>>,
             content |-> <<"text of", "remote", Snippets, 1>>]>>
    /\ Len(conflictsDisposables[Snippets]) = 2
    /\ Made(calls, "notificationService", "error", "e")
\* The file of a resource's invalid content is the active editor's: the
\* editor of the file, or a side-by-side editor with the file as its master.
FileIsActive(source) ==
    LET file == IF source = Settings THEN "settings.json" ELSE "keybindings.json"
    IN  \/ activeEditor.kind = "file" /\ activeEditor.resource = file
        \/ activeEditor.kind = "sideBySide" /\ activeEditor.master = file

\* An invalid-content notification for `area` is among the calls of `made`.
NotifiesInvalidContent(made, area) ==
    \E k \in DOMAIN made :
        /\ made[k].service = "notificationService"
        /\ made[k].op = "notify"
        /\ made[k].arg = <<"Error", "errorInvalidConfiguration", area>>

\* C11: an invalid-content error notification is not shown when the file in
\* error is the active editor: an onSyncErrors event with a
\* LocalInvalidContent error on Settings or Keybindings, handled while the
\* settings (resp. keybindings) file is the resource of the active editor,
\* creates no notification for that resource and records no entry for it.
C11_ActiveFileNotNotified ==
    [][LET errors == svcErrors'
       IN  Commit(onSyncErrors([Cur EXCEPT !.svcErrors = errors], errors)) =>
            \A i \in DOMAIN errors :
                LET source == errors[i][1]
                IN  (/\ errors[i][2].code = LocalInvalidContent
                     /\ source \in {Settings, Keybindings}
                     /\ FileIsActive(source)) =>
                        /\ ~NotifiesInvalidContent(calls',
                                IF source = Settings THEN "settings"
                                ELSE "keyboard shortcuts")
                        /\ source \in invalidContentErrorDisposables' =>
                                source \in invalidContentErrorDisposables
      ]_vars

\* Settings and keybindings were both reported with invalid content while
\* the settings file was the master side of the active diff editor: the
\* keybindings alone were notified and recorded.
C11_Witness ==
    /\ svcErrors = <<<<Settings, [code |-> LocalInvalidContent]>>,
                     <<Keybindings, [code |-> LocalInvalidContent]>>>>
    /\ activeEditor = [kind |-> "sideBySide", resource |-> "other.txt",
                       master |-> "settings.json"]
    /\ invalidContentErrorDisposables = {Keybindings}
    /\ calls = <<[service |-> "notificationService", op |-> "notify",
                  arg |-> <<"Error", "errorInvalidConfiguration",
                            "keyboard shortcuts">>]>>

\* C12: in every combination of the sync status, sync enablement and
\* authentication state context keys, at most one of the three Global
\* Activity sync entries ("Turn on Preferences Sync...", "Sign in to sync",
\* "Preferences sync is on") is visible, and none of them is visible while
\* the sync status key is Uninitialized.
C12_OneSyncEntry ==
    /\ Cardinality(GlobalActivitySyncEntries(ContextKeys)) <= 1
    /\ syncStatusContext = Uninitialized =>
            GlobalActivitySyncEntries(ContextKeys) = {}

\* Sync is on, the account signed in and the service syncing: the status
\* entry alone is visible.
C12_Witness ==
    /\ syncStatusContext = Syncing
    /\ syncEnablementContext
    /\ authenticationState = SignedIn
    /\ GlobalActivitySyncEntries(ContextKeys) = {"Preferences sync is on"}

\* C15: the Timeline view is among the Explorer container's views exactly
\* when the configuration's value of timeline.showView (the user's value,
\* else the default) is true, and the default of that setting is true if
\* and only if the product quality is not 'stable'.
C15_TimelineShownBySetting ==
    /\ ("timeline" \in ExplorerViews(ContextKeys)) =
            (IF showViewSetting = <<>> THEN showViewDefault ELSE showViewSetting[1])
    /\ showViewDefault = (productQuality # "stable")

\* A stable product, where the default is false: the user has set
\* timeline.showView to true and the view is shown.
C15_Witness ==
    /\ productQuality = "stable"
    /\ ~showViewDefault
    /\ showViewSetting = <<TRUE>>
    /\ ExplorerViews(ContextKeys) = {"timeline"}

\* C13: once the notebook's cell has run to its end, the book root holds
\* only _config.yml, _data and content: every other file and every other
\* directory has been removed.
C13_RootHoldsOnlyBook ==
    nbPc = "done" =>
        {path.name : path \in bookRoot} = {"_config.yml", "_data", "content"}

\* The entries of a kind ("- url: " or "- header: ") among the lines of a
\* toc, and whether the name of one is made of the supported characters.
EntriesOf(toc, kind) ==
    LET lines == splitlines(toc)
    IN  {SubSeq(lines[k], Len(kind) + 1, Len(lines[k])) :
            k \in {k \in DOMAIN lines : /\ Len(lines[k]) >= Len(kind)
                                        /\ SubSeq(lines[k], 1, Len(kind)) = kind}}

Supported(name, chars) ==
    Len(name) > 0 /\ \A i \in 1..Len(name) : SubSeq(name, i, i) \in chars

NoSupportedEntry(toc) ==
    /\ \A name \in EntriesOf(toc, "- url: ") : ~Supported(name, UrlChars)
    /\ \A name \in EntriesOf(toc, "- header: ") : ~Supported(name, HeaderChars)

\* C14: run on a toc without any url or header entry made of the supported
\* characters only, the cell ends with the SystemExit error 'File Name
\* contains unsupported-characters', and whenever it ends so, it has written
\* neither the toc nor the config file and has removed nothing.
C14_UnsupportedNamesFail ==
    [][nbPc = "created" /\ nbPc' # "created" =>
        /\ NoSupportedEntry(tocFile) => nbPc' = "SystemExit"
        /\ nbPc' = "SystemExit" =>
              /\ NoSupportedEntry(tocFile)
              /\ tocFile' = tocFile
              /\ configFile' = configFile
              /\ bookRoot' = bookRoot
              /\ fileOps' = {}]_vars

C14_Witness ==
    /\ nbPc = "SystemExit"
    /\ tocFile = "- url: /my_nb\n- header: my_folder\n"
    /\ [name |-> "Gemfile", is_file |-> TRUE] \in bookRoot
    /\ fileOps = {}

\* C16: whenever the authentication state is SignedIn an active account is
\* set, also while calls of setActiveAccount overlap.
C16_SignedInHasAccount ==
    authenticationState = SignedIn => activeAccount # NoAccount

\* No call of setActiveAccount is waiting for its access token.
AllCallsCompleted ==
    /\ \A id \in SessionIds : pendingTokens[id] = 0
    /\ accountFlow.pc # "initToken"

\* C17: once every call of setActiveAccount has completed, the token and
\* the authentication state are those of the active account, the account of
\* the call started last: its token with SignedIn or no token with
\* Unavailable; without an active account no token, with SignedOut (or
\* Initializing, after the provider was unregistered or before any call).
C17_LastStartedCallWins ==
    AllCallsCompleted =>
        IF activeAccount = NoAccount
        THEN token = NoToken /\ authenticationState \in {SignedOut, Initializing}
        ELSE \/ token = AccessToken(activeAccount) /\ authenticationState = SignedIn
             \/ token = NoToken /\ authenticationState = Unavailable

\* The outcomes of one call of setActiveAccount, with the badge recomputed.
TokenObtained(account) ==
    /\ activeAccount' = account
    /\ token' = AccessToken(account)
    /\ authenticationState' = SignedIn
    /\ activity' = BadgeDue'

TokenNotObtained(account) ==
    /\ activeAccount' = account
    /\ token' = NoToken
    /\ authenticationState' = Unavailable
    /\ activity' = BadgeDue'

WithoutAccount ==
    /\ activeAccount' = NoAccount
    /\ token' = NoToken
    /\ authenticationState' = SignedOut
    /\ activity' = BadgeDue'

\* C18: a call of setActiveAccount that no other call has overtaken (the
\* active account is still its account when its token request settles) ends
\* with its token and SignedIn when the token is obtained, with no token and
\* Unavailable when it is not, the account staying active in both; a call
\* without account ends with no token and SignedOut; the badge is recomputed
\* in all three.
C18_SingleCallOutcomes ==
    [][/\ (InitTokenResolved /\ activeAccount = accountFlow.account) =>
              TokenObtained(activeAccount)
       /\ (InitTokenRejected /\ activeAccount = accountFlow.account) =>
              TokenNotObtained(activeAccount)
       /\ \A id \in SessionIds :
              (activeAccount = id /\ pendingTokens[id] = 1 /\ pendingTokens'[id] = 0) =>
                  \/ PendingTokenResolved /\ TokenObtained(id)
                  \/ PendingTokenRejected /\ TokenNotObtained(id)
       /\ \/ TokenFailed /\ activeAccount = NoAccount
          \/ TokenFailedSessionsResolved /\ activeAccount \notin sessions
          \/ InitSessionsResolved /\ providerRegistered /\ sessions = {}
          => WithoutAccount]_vars

C18_Witness ==
    /\ activeAccount = "p/s1"
    /\ token = NoToken
    /\ authenticationState = Unavailable
    /\ AllCallsCompleted
    /\ enabled
    /\ activity = <<>>

\* C19: when onDidChangeSessions has returned from an event whose removed
\* sessions include the active account's, the active account is none of the
\* removed sessions.
C19_RemovedSessionNotActive ==
    [][(/\ accountFlow.origin = "sessions"
        /\ accountFlow.activeWasRemoved
        /\ accountFlow.pc \notin AccountEnded
        /\ accountFlow'.pc = "done")
       => activeAccount' \notin accountFlow.removed]_vars

\* The choose-account picker is created in the calls made.
ShowsAccountPicker(made) ==
    Made(made, "quickInputService", "createQuickPick", "chooseAccountTitle")

\* C20: initializeActiveAccount, once getSessions has resolved: with the
\* provider not registered the active account, the token and the
\* authentication state stay as they are; with zero sessions the state
\* becomes SignedOut; with one session that session becomes the active
\* account; with several, a stored preference that is the id of one of them
\* makes that session the active account without a picker, and otherwise the
\* choose-account picker is shown.
C20_InitializeActiveAccount ==
    [][(accountFlow.pc = "initGetSessions" /\ accountFlow'.pc # "initGetSessions") =>
        IF ~providerRegistered
        THEN /\ activeAccount' = activeAccount
             /\ token' = token
             /\ authenticationState' = authenticationState
             /\ ~ShowsAccountPicker(calls')
        ELSE IF sessions = {}
        THEN /\ authenticationState' = SignedOut
             /\ activeAccount' = NoAccount
             /\ ~ShowsAccountPicker(calls')
        ELSE IF \E id \in sessions : sessions = {id}
        THEN /\ sessions = {activeAccount'}
             /\ ~ShowsAccountPicker(calls')
        ELSE IF accountPreference \in sessions
        THEN /\ activeAccount' = accountPreference
             /\ ~ShowsAccountPicker(calls')
             /\ accountFlow'.pc # "initPicker"
        ELSE /\ ShowsAccountPicker(calls')
             /\ accountFlow'.pc = "initPicker"
             /\ accountFlow'.offered = sessions
             /\ activeAccount' = activeAccount]_vars

C20_Witness ==
    /\ accountFlow.pc = "done"
    /\ sessions = SessionIds
    /\ accountPreference = "p/s1"
    /\ activeAccount = "p/s1"
    /\ pendingTokens["p/s1"] = 1
    /\ authenticationState = Initializing
    /\ calls = <<>>

====
